---------------------------- MODULE Spec2Model ----------------------------
(***************************************************************************)
(* Competitive-analysis worker: the record store (CompetitorAnalysisDO),   *)
(* the /new page handler with performAnalysis, the /webhook handler with   *)
(* its competitor fan-out, the /analysis detail page, the search and the   *)
(* Markdown report, modelled from the current worker source                *)
(* (src/unnamed/part_000, lines 1968-4259).                                *)
(*                                                                         *)
(* Nullable values (SQL NULL, JS null/undefined) are written as sequences  *)
(* of length 0 or 1: Null is << >> and a present value v is <<v>>.         *)
(* Timestamps are milliseconds counted from the schema epoch, so the       *)
(* source's NEW_VERSION_DATE (1757517150949 ms) is time 0 here and a       *)
(* record created before it has a negative created_at.                     *)
(***************************************************************************)
EXTENDS Integers, Sequences, FiniteSets, TLC

VARIABLES
    store,  \* the analyses table: hostname -> row, or NoRow
    jobs,   \* task runs held by the research service, indexed by run_id
    now,    \* the wall clock (ms since the schema epoch)
    reqs,   \* the handlers in flight, each suspended at an await
    resp    \* the response of the handler that finished last, with what it did

vars == <<store, jobs, now, reqs, resp>>

----------------------------------------------------------------------------
(* Program constants *)

ANALYSIS_LIMIT == 5
ADMIN_USERNAMES == {"janwilmake", "khushi_shelat"}
NEW_VERSION_DATE == 0
MS_PER_DAY == 86400000
FRESH_DAYS == 14

(* Bounds of the model *)

MaxJobs == 3        \* task runs submitted in one behaviour
MaxInflight == 2    \* handlers in flight at the same time
MaxVisits == 1      \* detail-page views counted per record
MaxSkewMs == 1      \* how far the clock runs past the 14-day boundary
MaxCompetitors == 2 \* entries of a result's competitors array

----------------------------------------------------------------------------
(* Values *)

Null == << >>
Some(v) == <<v>>
IsNull(x) == x = Null
Val(x) == x[1]

NoRow == [absent |-> TRUE]

\* Hostnames that requests and results name.
Hosts == {"acme.com", "bolt.io", "cargo.dev"}
\* Hostnames of records the identity "alice" already owns when the run starts.
OwnedHosts == <<"own1.com", "own2.com", "own3.com", "own4.com", "own5.com">>
\* Every key the table can hold in the model ("localhost" fails the regex).
AllHosts == Hosts \cup {OwnedHosts[i] : i \in 1..Len(OwnedHosts)} \cup {"localhost"}

\* Hostnames of further records, for tables larger than a search returns;
\* the first MaxFillers of them are used.
MaxFillers == 51    \* further records in a searched table
SearchFillers ==
    <<"f01.net", "f02.net", "f03.net", "f04.net", "f05.net", "f06.net",
      "f07.net", "f08.net", "f09.net", "f10.net", "f11.net", "f12.net",
      "f13.net", "f14.net", "f15.net", "f16.net", "f17.net", "f18.net",
      "f19.net", "f20.net", "f21.net", "f22.net", "f23.net", "f24.net",
      "f25.net", "f26.net", "f27.net", "f28.net", "f29.net", "f30.net",
      "f31.net", "f32.net", "f33.net", "f34.net", "f35.net", "f36.net",
      "f37.net", "f38.net", "f39.net", "f40.net", "f41.net", "f42.net",
      "f43.net", "f44.net", "f45.net", "f46.net", "f47.net", "f48.net",
      "f49.net", "f50.net", "f51.net", "f52.net", "f53.net", "f54.net",
      "f55.net", "f56.net", "f57.net", "f58.net", "f59.net", "f60.net">>

\* Identities the auth collaborator can report (ctx.user), and no identity.
Users == {"alice", "janwilmake"}
Anonymous == [authenticated |-> FALSE, username |-> Null, profile_image_url |-> Null]
ProfileImage(u) == IF u = "alice" THEN "img/alice.png" ELSE "img/jan.png"
Identity(u) == [authenticated |-> TRUE, username |-> Some(u),
                profile_image_url |-> Some(ProfileImage(u))]
Contexts == {Anonymous} \cup {Identity(u) : u \in Users}

\* getCompanyName on the hostnames of the model: the TLD is dropped when
\* there is one, the remaining labels are capitalised and joined by spaces.
getCompanyName(hostname) ==
    CASE hostname = "acme.com" -> "Acme"
      [] hostname = "bolt.io" -> "Bolt"
      [] hostname = "cargo.dev" -> "Cargo"
      [] hostname = "own1.com" -> "Own1"
      [] hostname = "own2.com" -> "Own2"
      [] hostname = "own3.com" -> "Own3"
      [] hostname = "own4.com" -> "Own4"
      [] hostname = "own5.com" -> "Own5"
      [] hostname = "localhost" -> "Localhost"
      [] hostname = "" -> ""

\* isValidDomain: the hostname regex. "localhost" has no dot-separated TLD.
isValidDomain(hostname) == hostname # "localhost"

\* A faulty validation that never asks the resolver.
isValidHostnameSkipsDns(hostname, dnsOk) == isValidDomain(hostname)

\* isValidHostname: the regex, then the DNS-over-HTTPS lookup, whose answer
\* (dnsOk) is the resolver's.
isValidHostname(hostname, dnsOk) == isValidDomain(hostname) /\ dnsOk

\* The company query parameter (absent, blank, or a text), and
\* company.trim().toLowerCase() on it.
IsBlank(company) == IsNull(company) \/ Val(company) \in {"", "  "}
Normalize(s) == IF s = " ACME.com " THEN "acme.com" ELSE s

----------------------------------------------------------------------------
(* isAnalysisOld *)

\* A faulty staleness test that counts the fourteenth day itself as old.
isAnalysisOldInclusive(createdAt, clock) ==
    IF createdAt < NEW_VERSION_DATE
    THEN TRUE
    ELSE (clock - createdAt) >= FRESH_DAYS * MS_PER_DAY

isAnalysisOld(createdAt, clock) ==
    IF createdAt < NEW_VERSION_DATE
    THEN TRUE
    ELSE (clock - createdAt) > FRESH_DAYS * MS_PER_DAY


----------------------------------------------------------------------------
(* CompetitorAnalysisDO: the analyses table, one row per hostname *)

HasRow(s, hostname) == s[hostname] # NoRow

\* A faulty INSERT that keeps the row a hostname already has.
createAnalysisOrIgnore(s, analysis) ==
    IF HasRow(s, analysis.hostname) THEN s
    ELSE [s EXCEPT ![analysis.hostname] = analysis]

\* INSERT OR REPLACE: the row of analysis.hostname becomes the given row.
createAnalysis(s, analysis) ==
    [s EXCEPT ![analysis.hostname] = analysis]

getAnalysis(s, hostname) == s[hostname]

deleteAnalysis(s, hostname) == [s EXCEPT ![hostname] = NoRow]

\* SELECT COUNT( * ) ... WHERE username = ?
getUserAnalysisCount(s, username) ==
    Cardinality({h \in AllHosts : HasRow(s, h) /\ s[h].username = username})

\* A faulty UPDATE that writes result and error but leaves status as it was.
updateWithoutStatus(s, hostname, result, error, clock) ==
    IF HasRow(s, hostname)
    THEN [s EXCEPT ![hostname] =
            [@ EXCEPT !.result = result, !.error = error, !.updated_at = clock]]
    ELSE s

\* A faulty UPDATE that marks the row done and writes the result but drops
\* the error.
updateDroppingError(s, hostname, result, error, clock) ==
    IF HasRow(s, hostname)
    THEN [s EXCEPT ![hostname] =
            [@ EXCEPT !.status = "done", !.result = result, !.error = Null,
                      !.updated_at = clock]]
    ELSE s

\* UPDATE ... SET status, result, error, updated_at WHERE hostname = ?
\* (no row with that hostname: nothing is updated and nothing is raised).
updateAnalysisResult(s, hostname, result, error, clock) ==
    IF HasRow(s, hostname)
    THEN [s EXCEPT ![hostname] =
            [@ EXCEPT !.status = "done", !.result = result, !.error = error,
                      !.updated_at = clock]]
    ELSE s

\* A key of the data patch that is not supplied (JS undefined).
Undefined == <<"undefined", "undefined">>

\* The UPDATE of updateAnalysisResultWithData writes every supplied key; the
\* column company_name is NOT NULL, so a supplied null for it on an existing
\* row makes the statement fail and sql.exec throw, leaving the row as it was.
updateWithDataThrows(s, hostname, data) ==
    HasRow(s, hostname) /\ data.company_name = Null

Patched(old, supplied) == IF supplied = Undefined THEN old ELSE supplied

\* A faulty update that writes the terminal columns but none of the patch.
updateResultWithoutData(s, hostname, result, error, data, clock) ==
    updateAnalysisResult(s, hostname, result, error, clock)

updateAnalysisResultWithData(s, hostname, result, error, data, clock) ==
    IF HasRow(s, hostname) /\ ~updateWithDataThrows(s, hostname, data)
    THEN [s EXCEPT ![hostname] =
            [@ EXCEPT !.status = "done", !.result = result, !.error = error,
                      !.updated_at = clock,
                      !.company_name =
                          IF data.company_name = Undefined THEN @
                          ELSE Val(data.company_name),
                      !.category = Patched(@, data.category),
                      !.business_description =
                          Patched(@, data.business_description),
                      !.industry_sector = Patched(@, data.industry_sector),
                      !.keywords = Patched(@, data.keywords)]]
    ELSE s

\* UPDATE analyses SET visits = visits + 1 WHERE hostname = ?
incrementVisits(s, hostname) ==
    IF HasRow(s, hostname)
    THEN [s EXCEPT ![hostname] = [@ EXCEPT !.visits = @ + 1]]
    ELSE s

\* The row performAnalysis hands to createAnalysis.
PendingRow(hostname, username, profile_image_url, clock) ==
    [username |-> IF IsNull(username) THEN "" ELSE Val(username),
     profile_image_url |->
         IF IsNull(profile_image_url) THEN "" ELSE Val(profile_image_url),
     hostname |-> hostname, result |-> Null, error |-> Null,
     updated_at |-> clock, status |-> "pending",
     company_name |-> getCompanyName(hostname), category |-> Null,
     business_description |-> Null, industry_sector |-> Null,
     keywords |-> Null, visits |-> 0, company_domain |-> hostname,
     created_at |-> clock]


----------------------------------------------------------------------------
(* The research service: task runs, their results and their status events *)

\* output.content of a task result. kind is what typeof and truthiness see:
\* "undefined" (no content key), "null", "string" (a text output) or "object".
\* A field of an object is absent (Null), the empty string or a text; the
\* competitors array is absent or a sequence of competitor hostnames, where
\* "" stands for an entry without a hostname.
NoContent(kind) ==
    [company_name |-> Null, category |-> Null, business_description |-> Null,
     industry_sector |-> Null, keywords |-> Null, kind |-> kind,
     company_fits_criteria |-> Null, executive_summary |-> Null,
     competitors |-> Null]

ObjectContent(fits, name, category, summary, competitors) ==
    [company_name |-> name, category |-> category,
     business_description |-> Some("does things"),
     industry_sector |-> Some("software"), keywords |-> Some("tools, apps"),
     kind |-> "object", company_fits_criteria |-> fits,
     executive_summary |-> summary, competitors |-> competitors]

JsonOutput(content) == [content |-> content, type |-> "json"]

\* A well-formed result naming the given competitors.
GoodOutput(comps) ==
    JsonOutput(ObjectContent(Some(TRUE), Some("Acme Inc"), Some("SaaS"),
                             Some("summary"), Some(comps)))

\* The metadata performAnalysis attaches to a task run.
Metadata(hostname, isDeep, username, profile_image_url) ==
    [username |-> username, profile_image_url |-> profile_image_url,
     hostname |-> hostname, isDeep |-> isDeep]

\* A task run as taskRun.create leaves it at the service.
NewJob(metadata) ==
    [error |-> Null, status |-> "running", metadata |-> metadata,
     output |-> [content |-> NoContent("undefined"), type |-> "none"]]

\* What taskRun.result(run_id) returns for a completed run.
TaskResult(js, run_id) ==
    [output |-> js[run_id].output,
     run |-> [metadata |-> js[run_id].metadata, run_id |-> run_id]]

\* The task_run.status event the service sends for a run.
StatusEvent(js, run_id) ==
    [data |-> [error |-> js[run_id].error, status |-> js[run_id].status,
               metadata |-> Some(js[run_id].metadata), run_id |-> run_id],
     type |-> "task_run.status"]
----------------------------------------------------------------------------
(* verifyWebhookSignature *)

PARALLEL_WEBHOOK_SECRET == "whsec_live"

\* base64(HMAC-SHA256(secret, payload)): a keyed hash is modelled as the pair
\* of its key and message, so two signatures are equal iff both are.
HmacBase64(secret, payload) == [key |-> secret, msg |-> payload]

\* A text that is signed is the sequence of its pieces: a piece is a run of
\* characters without a ".", the character "." itself, or (json) the rest of
\* an event's JSON text after its first ".". Joining texts is \o, so two
\* texts are equal iff their pieces are, wherever the texts were joined.
Piece(text) == [text |-> text]
Dot == Piece(".")

\* The JSON text of an event up to its first ".", which is the one in
\* "task_run.status".
BODY_HEAD == "{\"type\":\"task_run"

\* A webhook-timestamp header that ends with the first piece of a body.
SHIFTED_TIMESTAMP == "1757600000.{\"type\":\"task_run"

\* The pieces of a header text of the model.
Pieces(text) ==
    CASE text = "" -> << >>
      [] text = "." -> <<Dot>>
      [] text = "a.b" -> <<Piece("a"), Dot, Piece("b")>>
      [] text = "b.c" -> <<Piece("b"), Dot, Piece("c")>>
      [] text = "msg_1.1757600000" -> <<Piece("msg_1"), Dot, Piece("1757600000")>>
      [] text = SHIFTED_TIMESTAMP -> <<Piece("1757600000"), Dot, Piece(BODY_HEAD)>>
      [] OTHER -> <<Piece(text)>>

\* JSON.stringify of an event, as the service sends it, and JSON.parse of a
\* request body: the event (Some), or Null when the text is not JSON and
\* JSON.parse throws.
JsonStringify(event) == <<Piece(BODY_HEAD), Dot, [json |-> event]>>

JsonParse(body) ==
    IF /\ Len(body) = 3
       /\ body[1] = Piece(BODY_HEAD)
       /\ body[2] = Dot
       /\ "json" \in DOMAIN body[3]
    THEN Some(body[3].json)
    ELSE Null

\* `${webhookId}.${webhookTimestamp}.${body}`
SignedPayload(webhookId, webhookTimestamp, body) ==
    Pieces(webhookId) \o <<Dot>> \o Pieces(webhookTimestamp) \o <<Dot>> \o body

\* A faulty verification that compares the signed payload but not the key.
verifyWithoutSecret(secret, webhookId, webhookTimestamp, body, signatureHeader) ==
    \E k \in 1..Len(signatureHeader) :
        /\ signatureHeader[k].version = "v1"
        /\ signatureHeader[k].sig.msg =
               SignedPayload(webhookId, webhookTimestamp, body)

\* The signature header split on " ": a sequence of candidates, each with the
\* text before the first comma (version) and the text after it (sig).
verifyWebhookSignature(secret, webhookId, webhookTimestamp, body, signatureHeader) ==
    \E k \in 1..Len(signatureHeader) :
        /\ signatureHeader[k].version = "v1"
        /\ signatureHeader[k].sig =
               HmacBase64(secret, SignedPayload(webhookId, webhookTimestamp, body))


----------------------------------------------------------------------------
(* Responses *)

\* The response of a handler and what the handler did: the run its event was
\* about (run_id), whether it called taskRun.result (fetched), the competitor
\* hostnames the fan-out called taskRun.create for (attempted), those whose
\* call had returned (submitted), whether /new deleted the existing row, the
\* competitors the Markdown report has a section for (sections), and the
\* hostnames of the rows a search returned, in order (results).
Response(op, status, branch, hostname, username) ==
    [username |-> username, hostname |-> hostname, status |-> status,
     run_id |-> 0, op |-> op, branch |-> branch, fetched |-> FALSE,
     attempted |-> << >>, submitted |-> << >>, deleted |-> FALSE,
     sections |-> << >>, results |-> << >>]

NoResponse == Response("none", 0, "none", Null, Null)

----------------------------------------------------------------------------
(* Handlers suspended at an await *)

\* Every handler runs from one await to the next without interruption; at an
\* await it waits for a call on the record store or on the research service,
\* and the calls of the handlers in flight take effect in any order. An
\* action below is one such call taking effect together with the handler's
\* code up to the call it makes next. The clock and the arguments of a call
\* are read when the call is made, the table when the call takes effect.

\* The update of the record a webhook handler has asked for: none, the
\* three-argument updateAnalysisResult (plain), or
\* updateAnalysisResultWithData (data). tag names the branch that asked.
NoData ==
    [company_name |-> Null, category |-> Null, business_description |-> Null,
     industry_sector |-> Null, keywords |-> Null]

NoUpdate ==
    [result |-> Null, error |-> Null, data |-> NoData, kind |-> "none",
     tag |-> "none"]

PlainUpdate(result, error, tag) ==
    [result |-> result, error |-> error, data |-> NoData, kind |-> "plain",
     tag |-> tag]

DataUpdate(result, error, data, tag) ==
    [result |-> result, error |-> error, data |-> data, kind |-> "data",
     tag |-> tag]

\* A handler in flight. pc is the call it waits for. hostname, ctx,
\* existingAnalysis (the row its getAnalysis returned) and deleted are those
\* of a /new request, stamp the clock it read for the row it is about to
\* create and run_id the run taskRun.create returned. For a webhook handler
\* req is its request until the signature is verified and the body parsed,
\* run_id is the run of its event, and fetched, meta and update are its own.
\* calls are the callbacks of a Promise.all, one per competitor hostname.
IdleReq ==
    [hostname |-> "", run_id |-> 0, fetched |-> FALSE, deleted |-> FALSE,
     pc |-> "idle", ctx |-> Anonymous, existingAnalysis |-> NoRow, stamp |-> 0,
     meta |-> Metadata("", FALSE, Null, Null), update |-> NoUpdate,
     calls |-> << >>,
     req |-> [body |-> << >>, method |-> "", id |-> Null, timestamp |-> Null,
              signature |-> Null]]

\* The handler in slot i answers with r and is gone.
Answer(i, r) ==
    /\ reqs' = [reqs EXCEPT ![i] = IdleReq]
    /\ resp' = r

\* The handler in slot i goes on to wait as r.
Await(i, r) ==
    /\ reqs' = [reqs EXCEPT ![i] = r]
    /\ UNCHANGED resp

----------------------------------------------------------------------------
(* GET /new: handleNew and performAnalysis *)

IsAdmin(ctx) ==
    (IF IsNull(ctx.username) THEN "" ELSE Val(ctx.username)) \in ADMIN_USERNAMES

\* JS truthiness of a nullable string.
Truthy(x) == ~IsNull(x) /\ Val(x) # ""

\* Which branch of the existing-record check a row takes.
ExistingBranch(existing, ctx, clock) ==
    IF existing = NoRow THEN "none"
    ELSE IF isAnalysisOld(existing.created_at, clock) /\ ctx.authenticated
         THEN "delete"
    ELSE IF Truthy(existing.error) THEN "delete"
    ELSE "redirect"

\* A faulty quota check that lets the count reach one past the limit.
OverQuotaOffByOne(s, ctx) ==
    /\ getUserAnalysisCount(s, IF IsNull(ctx.username) THEN "" ELSE Val(ctx.username))
           > ANALYSIS_LIMIT
    /\ ~IsAdmin(ctx)

\* The quota check: the identity's row count against ANALYSIS_LIMIT.
OverQuota(s, ctx) ==
    /\ getUserAnalysisCount(s, IF IsNull(ctx.username) THEN "" ELSE Val(ctx.username))
           >= ANALYSIS_LIMIT
    /\ ~IsAdmin(ctx)

\* The response of the /new request r.
NewResponse(r, status, branch) ==
    [Response("new", status, branch, Some(r.hostname), r.ctx.username)
        EXCEPT !.deleted = r.deleted]

\* handleNew after the existing-record check: isValidHostname answers false
\* at once for a hostname the regex rejects (400), and otherwise asks the
\* resolver.
AfterExisting(i, r) ==
    IF ~isValidDomain(r.hostname)
    THEN Answer(i, NewResponse(r, 400, "invalid"))
    ELSE Await(i, [r EXCEPT !.pc = "dns"])

\* handleNew up to its first answer or its second await: the company
\* parameter, then getAnalysis of the hostname and the existing-record check
\* on the row it returned.
HandleNewBegin(i, company, ctx) ==
    /\ reqs[i].pc = "idle"
    /\ UNCHANGED <<store, jobs, now>>
    /\ IF IsBlank(company)
       THEN Answer(i, Response("new", 400, "required", Null, ctx.username))
       ELSE LET hostname == Normalize(Val(company))
                existingAnalysis == getAnalysis(store, hostname)
                branch == ExistingBranch(existingAnalysis, ctx, now)
                r == [IdleReq EXCEPT !.hostname = hostname, !.ctx = ctx,
                                     !.existingAnalysis = existingAnalysis]
            IN  CASE branch = "redirect" ->
                        Answer(i, NewResponse(r, 302, "existing"))
                  [] branch = "delete" -> Await(i, [r EXCEPT !.pc = "delete"])
                  [] branch = "none" -> AfterExisting(i, r)

\* deleteAnalysis of the hostname takes effect, whatever row it has by now.
HandleNewDelete(i) ==
    /\ reqs[i].pc = "delete"
    /\ store' = deleteAnalysis(store, reqs[i].hostname)
    /\ AfterExisting(i, [reqs[i] EXCEPT !.deleted = TRUE])
    /\ UNCHANGED <<jobs, now>>

\* The resolver has answered (dnsOk): 400 for a hostname that does not
\* resolve, the login page for a caller who is not logged in, else the quota
\* lookup.
HandleNewValidate(i, dnsOk) ==
    /\ reqs[i].pc = "dns"
    /\ UNCHANGED <<store, jobs, now>>
    /\ IF ~isValidHostname(reqs[i].hostname, dnsOk)
       THEN Answer(i, NewResponse(reqs[i], 400, "invalid"))
       ELSE IF ~reqs[i].ctx.authenticated
       THEN Answer(i, NewResponse(reqs[i], 401, "login"))
       ELSE Await(i, [reqs[i] EXCEPT !.pc = "count"])

\* getUserAnalysisCount takes effect: 429 at the limit, else performAnalysis
\* is called and asks the service for a run.
HandleNewCount(i) ==
    /\ reqs[i].pc = "count"
    /\ UNCHANGED <<store, jobs, now>>
    /\ IF OverQuota(store, reqs[i].ctx)
       THEN Answer(i, NewResponse(reqs[i], 429, "quota"))
       ELSE Await(i, [reqs[i] EXCEPT !.pc = "submit"])

\* A faulty performAnalysis that writes the pending row before it calls
\* taskRun.create, so a call that throws leaves the row behind.
HandleNewSubmitAfterCreate(i, ok) ==
    /\ reqs[i].pc = "submit"
    /\ store' = createAnalysis(store,
                    PendingRow(reqs[i].hostname, reqs[i].ctx.username,
                               reqs[i].ctx.profile_image_url, now))
    /\ UNCHANGED now
    /\ IF ok
       THEN /\ Len(jobs) < MaxJobs
            /\ jobs' = Append(jobs, NewJob(Metadata(reqs[i].hostname, TRUE,
                           reqs[i].ctx.username, reqs[i].ctx.profile_image_url)))
            /\ Await(i, [reqs[i] EXCEPT !.pc = "create", !.stamp = now,
                                         !.run_id = Len(jobs) + 1])
       ELSE /\ Answer(i, NewResponse(reqs[i], 500, "submit_failed"))
            /\ UNCHANGED jobs

\* performAnalysis, first half: taskRun.create with the request's metadata.
\* The call returns (ok) and the run exists at the service: performAnalysis
\* reads the clock for created_at and updated_at and calls createAnalysis.
\* Or the call throws and handleNew answers 500.
HandleNewSubmit(i, ok) ==
    /\ reqs[i].pc = "submit"
    /\ UNCHANGED <<store, now>>
    /\ IF ok
       THEN /\ Len(jobs) < MaxJobs
            /\ jobs' = Append(jobs, NewJob(Metadata(reqs[i].hostname, TRUE,
                           reqs[i].ctx.username, reqs[i].ctx.profile_image_url)))
            /\ Await(i, [reqs[i] EXCEPT !.pc = "create", !.stamp = now,
                                         !.run_id = Len(jobs) + 1])
       ELSE /\ Answer(i, NewResponse(reqs[i], 500, "submit_failed"))
            /\ UNCHANGED jobs

\* performAnalysis, second half: createAnalysis of the pending row takes
\* effect, then the 302 to the detail page.
HandleNewCreate(i) ==
    /\ reqs[i].pc = "create"
    /\ store' = createAnalysis(store,
                    PendingRow(reqs[i].hostname, reqs[i].ctx.username,
                               reqs[i].ctx.profile_image_url, reqs[i].stamp))
    /\ Answer(i, NewResponse(reqs[i], 302, "created"))
    /\ UNCHANGED <<jobs, now>>


----------------------------------------------------------------------------
(* POST /webhook: handleWebhook *)

ERR_NOT_COMPANY ==
    "This domain does not appear to be an active company with real products or services. Please try a different company."
ERR_FORMAT == "Unexpected output format"
ERR_EMPTY ==
    "Could not complete task - outputs contained empty strings. Please try again."
ERR_FAILED == "Analysis failed"

\* The messages of the exceptions the try block can raise.
MSG_FETCH == "Connection error."
MSG_NULL_CONTENT == "Cannot read properties of null (reading 'competitors')"
MSG_SUBMIT == "Task run could not be created"
MSG_NOT_NULL == "NOT NULL constraint failed: analyses.company_name"

\* "Error fetching result: " + error?.message
ErrorFetchingResult(message) ==
    CASE message = MSG_FETCH -> "Error fetching result: Connection error."
      [] message = MSG_NULL_CONTENT ->
            "Error fetching result: Cannot read properties of null (reading 'competitors')"
      [] message = MSG_SUBMIT ->
            "Error fetching result: Task run could not be created"
      [] message = MSG_NOT_NULL ->
            "Error fetching result: NOT NULL constraint failed: analyses.company_name"

\* result.output.content is truthy: an object, or a text that is not empty.
ContentTruthy(content) == content.kind \in {"object", "string"}

\* Object.values(content).find((x) => x === ""): the first value that is the
\* empty string (Some("")), or undefined (Null) when there is none.
FindEmptyString(content) ==
    IF /\ content.kind = "object"
       /\ \E f \in {"company_name", "category", "business_description",
                    "industry_sector", "keywords", "executive_summary"} :
             content[f] = Some("")
    THEN Some("")
    ELSE Null

\* hasEmptyString: !! of what find returned when there is content, else true.
hasEmptyString(content) ==
    IF ContentTruthy(content) THEN Truthy(FindEmptyString(content)) ELSE TRUE

\* A faulty gate that lets every result through.
NotACompanyNever(analysisData) == FALSE

\* analysisData.company_fits_criteria === false
NotACompany(analysisData) == analysisData.company_fits_criteria = Some(FALSE)

\* x || null on a field of the job output.
OrNull(x) == IF Truthy(x) THEN x ELSE Null

\* updateData: the patch built from the job output; every key is supplied.
updateData(analysisData) ==
    [company_name |-> OrNull(analysisData.company_name),
     category |-> OrNull(analysisData.category),
     business_description |-> OrNull(analysisData.business_description),
     industry_sector |-> OrNull(analysisData.industry_sector),
     keywords |-> OrNull(analysisData.keywords)]

\* competitors?.map((comp) => comp.hostname).filter(Boolean)
CompetitorHostnames(content) ==
    IF content.kind # "object" \/ IsNull(content.competitors)
    THEN << >>
    ELSE LET named(h) == h # ""
         IN  SelectSeq(Val(content.competitors), named)

\* The fan-out's check of one competitor: a submission is needed unless the
\* hostname has a row with no error whose updated_at is not old.
NeedsAnalysis(s, hostname, clock) ==
    LET existingAnalysis == getAnalysis(s, hostname)
    IN  ~(/\ existingAnalysis # NoRow
          /\ ~Truthy(existingAnalysis.error)
          /\ ~isAnalysisOld(existingAnalysis.updated_at, clock))

\* A faulty fan-out that marks its submissions as deep.
FanOutRecurses == TRUE

\* The isDeep flag the fan-out passes to performAnalysis.
FanOutIsDeep == FALSE

\* A faulty catch block that records nothing.
CatchBlockSilent(message) == [NoUpdate EXCEPT !.tag = "caught"]

\* The catch block: it asks for the record to end done with "Error fetching
\* result: " and the exception's message, and no result.
CatchBlock(message) ==
    PlainUpdate(Null, Some(ErrorFetchingResult(message)), "caught")

\* A faulty failed branch that always records the default message.
FailedMessageDefault(error) == Some(ERR_FAILED)

\* payload.data.error?.message || "Analysis failed"
FailedMessage(error) ==
    IF IsNull(error) \/ ~Truthy(Val(error).message)
    THEN Some(ERR_FAILED)
    ELSE Val(error).message

\* payload.data.metadata?.hostname
EventHostname(payload) ==
    IF IsNull(payload.data.metadata) THEN Null
    ELSE Some(Val(payload.data.metadata).hostname)

\* The try block from the fetched result to the update it asks for when
\* there is no fan-out to wait for: the gates in the order of the code, the
\* exception of hasNoCompetitors on a null content, and the data update of a
\* result that passes.
TryBlock(result) ==
    LET content == result.output.content
        analysisData == IF content.kind = "object" THEN content
                        ELSE NoContent("object")
    IN  IF NotACompany(analysisData)
        THEN PlainUpdate(Null, Some(ERR_NOT_COMPANY), "not_company")
        ELSE IF content.kind = "null" THEN CatchBlock(MSG_NULL_CONTENT)
        ELSE IF result.output.type # "json"
        THEN PlainUpdate(Null, Some(ERR_FORMAT), "format")
        ELSE IF hasEmptyString(content)
        THEN PlainUpdate(Some(result), Some(ERR_EMPTY), "empty")
        ELSE DataUpdate(Some(result), Null, updateData(analysisData), "success")

\* The hostnames the fan-out maps over: those of a deep run's competitors.
FanOutHostnames(result) ==
    IF result.run.metadata.isDeep
    THEN CompetitorHostnames(result.output.content)
    ELSE << >>

\* POST /webhook, up to request.text(): 405 for another method, 400 when one
\* of the three headers is missing or empty; else the handler waits for the
\* body.
HandleWebhook(i, req) ==
    LET reject(status, branch) ==
            Answer(i, Response("webhook", status, branch, Null, Null))
    IN
    /\ reqs[i].pc = "idle"
    /\ UNCHANGED <<store, jobs, now>>
    /\ IF req.method # "POST" THEN reject(405, "method")
       ELSE IF ~Truthy(req.id) \/ ~Truthy(req.timestamp) \/ IsNull(req.signature)
               \/ req.signature = Some(<< >>)
       THEN reject(400, "headers")
       ELSE Await(i, [IdleReq EXCEPT !.pc = "text", !.req = req])

\* request.text() has returned the body, and verifyWebhookSignature is
\* called with the headers, the body and the secret.
HandleWebhookText(i) ==
    /\ reqs[i].pc = "text"
    /\ Await(i, [reqs[i] EXCEPT !.pc = "verify"])
    /\ UNCHANGED <<store, jobs, now>>

\* verifyWebhookSignature has returned: 401 when no candidate matches; else
\* the body is parsed, which throws on a text that is not JSON, and the
\* event is looked at: a completed event with a hostname has its result
\* fetched, a failed one with a hostname asks for the record's update, and
\* every other event is acknowledged.
HandleWebhookVerify(i) ==
    LET req == reqs[i].req
        reject(status, branch) ==
            Answer(i, Response("webhook", status, branch, Null, Null))
        payload == Val(JsonParse(req.body))
        hostname == EventHostname(payload)
    IN
    /\ reqs[i].pc = "verify"
    /\ UNCHANGED <<store, jobs, now>>
    /\ IF ~verifyWebhookSignature(PARALLEL_WEBHOOK_SECRET, Val(req.id),
                   Val(req.timestamp), req.body, Val(req.signature))
       THEN reject(401, "signature")
       ELSE IF IsNull(JsonParse(req.body)) THEN reject(500, "exception")
       ELSE IF payload.type = "task_run.status" /\ payload.data.status = "completed"
       THEN IF ~Truthy(hostname)
            THEN reject(400, "no_hostname")
            ELSE Await(i, [IdleReq EXCEPT !.pc = "fetch",
                                          !.hostname = Val(hostname),
                                          !.run_id = payload.data.run_id])
       ELSE IF payload.type = "task_run.status" /\ payload.data.status = "failed"
               /\ Truthy(hostname)
       THEN Await(i, [IdleReq EXCEPT
                         !.pc = "update", !.hostname = Val(hostname),
                         !.run_id = payload.data.run_id,
                         !.update = PlainUpdate(Null,
                                        FailedMessage(payload.data.error),
                                        "failed")])
       ELSE Answer(i, Response("webhook", 200, "ignored", hostname, Null))

\* A callback of the fan-out's Promise.all: it waits for getAnalysis (get),
\* for taskRun.create (submit, inside performAnalysis) or for createAnalysis
\* (create), or it has returned without a submission (skipped) or after
\* createAnalysis (created), or its submission has thrown (failed).
Callback(hostname) ==
    [hostname |-> hostname, run_id |-> 0, pc |-> "get", stamp |-> 0]

Unsettled(r) ==
    \E k \in 1..Len(r.calls) : r.calls[k].pc \notin {"skipped", "created", "failed"}

\* taskRun.result takes effect: it throws (fetchOk false) or returns the
\* run's result, and the try block runs up to its next await: an update, or
\* the first getAnalysis of every callback of the fan-out.
HandleWebhookFetch(i, fetchOk) ==
    LET r == [reqs[i] EXCEPT !.fetched = TRUE]
        result == TaskResult(jobs, r.run_id)
        asked == TryBlock(result)
        hostnames == FanOutHostnames(result)
    IN
    /\ reqs[i].pc = "fetch"
    /\ fetchOk => r.run_id \in 1..Len(jobs)
    /\ UNCHANGED <<store, jobs, now>>
    /\ IF ~fetchOk
       THEN Await(i, [r EXCEPT !.pc = "update", !.update = CatchBlock(MSG_FETCH)])
       ELSE IF asked.tag = "success" /\ hostnames # << >>
       THEN Await(i, [r EXCEPT !.pc = "fanout", !.update = asked,
                               !.meta = result.run.metadata,
                               !.calls = [k \in 1..Len(hostnames) |->
                                             Callback(hostnames[k])]])
       ELSE Await(i, [r EXCEPT !.pc = "update", !.update = asked])

\* The handler r after its callbacks have become calls. While it waits for
\* Promise.all: a callback that has thrown rejects it and the catch block
\* asks for its update; callbacks that have all returned resolve it and the
\* data update is asked for. Callbacks that outlive the answer end with the
\* last of them.
AfterCallback(r, calls) ==
    LET moved == [r EXCEPT !.calls = calls] IN
    CASE r.pc = "fanout" /\ (\E k \in 1..Len(calls) : calls[k].pc = "failed") ->
            [moved EXCEPT !.pc = "update", !.update = CatchBlock(MSG_SUBMIT)]
      [] r.pc = "fanout"
            /\ (\A k \in 1..Len(calls) : calls[k].pc \in {"skipped", "created"}) ->
            [moved EXCEPT !.pc = "update"]
      [] r.pc = "detached" /\ ~Unsettled(moved) -> IdleReq
      [] OTHER -> moved

\* The callbacks of slot i that are under way.
Callbacks(i) ==
    IF reqs[i].pc \in {"fanout", "update", "detached"}
    THEN 1..Len(reqs[i].calls)
    ELSE {}

\* A callback's getAnalysis takes effect: the callback returns when no
\* submission is needed, else it calls performAnalysis, which asks the
\* service for a run.
HandleFanOutCheck(i, k) ==
    LET call == reqs[i].calls[k] IN
    /\ k \in Callbacks(i)
    /\ call.pc = "get"
    /\ Await(i, AfterCallback(reqs[i],
           [reqs[i].calls EXCEPT ![k].pc =
               IF NeedsAnalysis(store, call.hostname, now)
               THEN "submit" ELSE "skipped"]))
    /\ UNCHANGED <<store, jobs, now>>

\* A callback's taskRun.create takes effect: it returns (ok), the run exists
\* and performAnalysis reads the clock and calls createAnalysis; or it
\* throws, and so does the callback.
HandleFanOutSubmit(i, k, ok) ==
    LET call == reqs[i].calls[k] IN
    /\ k \in Callbacks(i)
    /\ call.pc = "submit"
    /\ UNCHANGED <<store, now>>
    /\ IF ok
       THEN /\ Len(jobs) < MaxJobs
            /\ jobs' = Append(jobs, NewJob(Metadata(call.hostname, FanOutIsDeep,
                           reqs[i].meta.username, reqs[i].meta.profile_image_url)))
            /\ Await(i, AfterCallback(reqs[i],
                   [reqs[i].calls EXCEPT ![k].pc = "create", ![k].stamp = now,
                                         ![k].run_id = Len(jobs) + 1]))
       ELSE /\ UNCHANGED jobs
            /\ Await(i, AfterCallback(reqs[i],
                   [reqs[i].calls EXCEPT ![k].pc = "failed"]))

\* A callback's createAnalysis takes effect and the callback returns.
HandleFanOutCreate(i, k) ==
    LET call == reqs[i].calls[k] IN
    /\ k \in Callbacks(i)
    /\ call.pc = "create"
    /\ store' = createAnalysis(store,
                    PendingRow(call.hostname, reqs[i].meta.username,
                               reqs[i].meta.profile_image_url, call.stamp))
    /\ Await(i, AfterCallback(reqs[i], [reqs[i].calls EXCEPT ![k].pc = "created"]))
    /\ UNCHANGED <<jobs, now>>

\* The update a handler has asked for, on the table.
ApplyUpdate(s, hostname, asked, clock) ==
    CASE asked.kind = "plain" ->
            updateAnalysisResult(s, hostname, asked.result, asked.error, clock)
      [] asked.kind = "data" ->
            updateAnalysisResultWithData(s, hostname, asked.result, asked.error,
                                         asked.data, clock)
      [] OTHER -> s

\* The update of the handler r throws: the statement of
\* updateAnalysisResultWithData fails.
UpdateThrows(s, r) ==
    r.update.kind = "data" /\ updateWithDataThrows(s, r.hostname, r.update.data)

\* The competitor hostnames taskRun.create was called for, and those for
\* which it has returned.
RECURSIVE HostnamesAt(_, _)
HostnamesAt(calls, pcs) ==
    IF calls = << >> THEN << >>
    ELSE (IF Head(calls).pc \in pcs THEN <<Head(calls).hostname>> ELSE << >>)
             \o HostnamesAt(Tail(calls), pcs)

Attempted(r) == HostnamesAt(r.calls, {"submit", "create", "created", "failed"})

\* The answer of the webhook handler r.
WebhookResponse(r) ==
    [Response("webhook", 200, r.update.tag, Some(r.hostname), Null)
        EXCEPT !.run_id = r.run_id, !.fetched = r.fetched,
               !.attempted = Attempted(r), !.submitted = HostnamesAt(r.calls, {"create", "created"})]

\* What is left of the handler r once it has answered: nothing, unless
\* callbacks of a rejected Promise.all are still under way; the runtime may
\* let them go on after the response or drop them with the request.
AfterAnswer(r) ==
    IF Unsettled(r) THEN {IdleReq, [r EXCEPT !.pc = "detached"]} ELSE {IdleReq}

\* The handler's update takes effect. updateAnalysisResultWithData may throw,
\* which takes the handler to the catch block and its update; otherwise the
\* handler answers OK.
HandleWebhookUpdate(i) ==
    /\ reqs[i].pc = "update"
    /\ UNCHANGED <<jobs, now>>
    /\ IF UpdateThrows(store, reqs[i])
       THEN /\ Await(i, [reqs[i] EXCEPT !.update = CatchBlock(MSG_NOT_NULL)])
            /\ UNCHANGED store
       ELSE /\ store' = ApplyUpdate(store, reqs[i].hostname, reqs[i].update, now)
            /\ resp' = WebhookResponse(reqs[i])
            /\ \E left \in AfterAnswer(reqs[i]) :
                  reqs' = [reqs EXCEPT ![i] = left]

----------------------------------------------------------------------------
(* GET /analysis/{hostname}: handleResult *)

\* getAnalysis takes effect: the 404 page, the error page, the pending page,
\* or, for a row that is done without an error, the call of incrementVisits.
HandleResult(i, hostname) ==
    LET analysis == getAnalysis(store, hostname)
        page(status, branch) ==
            Answer(i, Response("result", status, branch, Some(hostname), Null))
    IN
    /\ reqs[i].pc = "idle"
    /\ UNCHANGED <<store, jobs, now>>
    /\ IF analysis = NoRow THEN page(404, "not_found")
       ELSE IF Truthy(analysis.error) THEN page(200, "error_page")
       ELSE IF analysis.status = "done"
       THEN Await(i, [IdleReq EXCEPT !.pc = "visit", !.hostname = hostname])
       ELSE page(200, "pending_page")

\* incrementVisits takes effect on the row the hostname has by now, and the
\* report page is returned.
HandleResultVisit(i) ==
    /\ reqs[i].pc = "visit"
    /\ store' = incrementVisits(store, reqs[i].hostname)
    /\ Answer(i, Response("result", 200, "report", Some(reqs[i].hostname), Null))
    /\ UNCHANGED <<jobs, now>>

----------------------------------------------------------------------------
(* GET /: the popular and recent listings of handleHome *)

POPULAR_LIMIT == 6
RECENT_LIMIT == 30

\* WHERE status = 'done' AND error IS NULL
Listable(s) ==
    {h \in AllHosts : HasRow(s, h) /\ s[h].status = "done" /\ s[h].error = Null}

\* ORDER BY visits DESC LIMIT ?: the hostnames of the rows the query can
\* return, those with fewer than limit listable rows strictly ahead of them
\* (rows that tie come in any order).
getPopularAnalyses(s, limit) ==
    {h \in Listable(s) :
        Cardinality({g \in Listable(s) : s[g].visits > s[h].visits}) < limit}

\* ORDER BY created_at DESC LIMIT ?
getRecentAnalyses(s, limit) ==
    {h \in Listable(s) :
        Cardinality({g \in Listable(s) : s[g].created_at > s[h].created_at}) < limit}

----------------------------------------------------------------------------
(* GET /search/{query}: handleSearch and searchAnalyses *)

SEARCH_LIMIT == 50

\* The characters of the texts that rows and queries of the model carry
\* (hostnames are the characters of their own name).
Chars(text) ==
    CASE
         text = "acme.com" -> <<"a", "c", "m", "e", ".", "c", "o", "m">>
      [] text = "bolt.io" -> <<"b", "o", "l", "t", ".", "i", "o">>
      [] text = "cargo.dev" -> <<"c", "a", "r", "g", "o", ".", "d", "e", "v">>
      [] text = "Acme" -> <<"A", "c", "m", "e">>
      [] text = "Bolt" -> <<"B", "o", "l", "t">>
      [] text = "Cargo" -> <<"C", "a", "r", "g", "o">>
      [] text = "Acme Inc" -> <<"A", "c", "m", "e", " ", "I", "n", "c">>
      [] text = "ACME.com" -> <<"A", "C", "M", "E", ".", "c", "o", "m">>
      [] text = "SaaS" -> <<"S", "a", "a", "S">>
      [] text = "software" -> <<"s", "o", "f", "t", "w", "a", "r", "e">>
      [] text = "does things" -> <<"d", "o", "e", "s", " ", "t", "h", "i", "n", "g", "s">>
      [] text = "tools, apps" -> <<"t", "o", "o", "l", "s", ",", " ", "a", "p", "p", "s">>
      [] text = "acme.com rival" -> <<"a", "c", "m", "e", ".", "c", "o", "m", " ", "r", "i", "v", "a", "l">>
      [] text = " ACME.com " -> <<" ", "A", "C", "M", "E", ".", "c", "o", "m", " ">>
      [] text = "Acme.com" -> <<"A", "c", "m", "e", ".", "c", "o", "m">>
      [] text = "acme" -> <<"a", "c", "m", "e">>
      [] text = "saas" -> <<"s", "a", "a", "s">>
      [] text = "  " -> <<" ", " ">>
      [] text = "" -> << >>
      [] text = "own1.com" -> <<"o", "w", "n", "1", ".", "c", "o", "m">>
      [] text = "own2.com" -> <<"o", "w", "n", "2", ".", "c", "o", "m">>
      [] text = "own3.com" -> <<"o", "w", "n", "3", ".", "c", "o", "m">>
      [] text = "own4.com" -> <<"o", "w", "n", "4", ".", "c", "o", "m">>
      [] text = "own5.com" -> <<"o", "w", "n", "5", ".", "c", "o", "m">>
      [] text = "localhost" -> <<"l", "o", "c", "a", "l", "h", "o", "s", "t">>
      [] OTHER ->
            LET k == CHOOSE j \in 1..Len(SearchFillers) : SearchFillers[j] = text
                digit == <<"0", "1", "2", "3", "4", "5", "6", "7", "8", "9">>
            IN  <<"f", digit[(k \div 10) + 1], digit[(k % 10) + 1],
                  ".", "n", "e", "t">>

\* toLowerCase() and SQL LOWER() on the characters of the model.
LowerChar(c) ==
    CASE
         c = "A" -> "a"
      [] c = "B" -> "b"
      [] c = "C" -> "c"
      [] c = "E" -> "e"
      [] c = "I" -> "i"
      [] c = "M" -> "m"
      [] c = "S" -> "s"
      [] OTHER -> c

Lower(chars) == [k \in 1..Len(chars) |-> LowerChar(chars[k])]

\* String.prototype.trim(): leading and trailing spaces are dropped.
RECURSIVE TrimStart(_)
TrimStart(chars) ==
    IF chars # << >> /\ Head(chars) = " " THEN TrimStart(Tail(chars)) ELSE chars

RECURSIVE TrimEnd(_)
TrimEnd(chars) ==
    IF chars # << >> /\ chars[Len(chars)] = " "
    THEN TrimEnd(SubSeq(chars, 1, Len(chars) - 1))
    ELSE chars

Trim(chars) == TrimEnd(TrimStart(chars))

\* text LIKE 'pattern%' and text LIKE '%pattern%' for a pattern without
\* the wildcards % and _ (no query of the model has one).
StartsWith(chars, pattern) ==
    /\ Len(pattern) <= Len(chars)
    /\ SubSeq(chars, 1, Len(pattern)) = pattern

Contains(chars, pattern) ==
    \E k \in 0..(Len(chars) - Len(pattern)) :
        SubSeq(chars, k + 1, k + Len(pattern)) = pattern

\* LOWER(column) of a nullable text column: NULL stays NULL, and a
\* comparison with NULL is not true.
LowerColumn(x) == IF IsNull(x) THEN Null ELSE Some(Lower(Chars(Val(x))))

ColumnLike(x, lowerQuery) ==
    ~IsNull(LowerColumn(x)) /\ Contains(Val(LowerColumn(x)), lowerQuery)

\* The WHERE clause of searchAnalyses.
searchMatches(row, lowerQuery) ==
    \/ ColumnLike(Some(row.hostname), lowerQuery)
    \/ ColumnLike(Some(row.company_name), lowerQuery)
    \/ ColumnLike(row.category, lowerQuery)
    \/ ColumnLike(row.industry_sector, lowerQuery)
    \/ ColumnLike(row.keywords, lowerQuery)

\* A faulty ranking that puts every match in the last class.
searchRankNone(row, lowerQuery) == 5

\* The CASE of the ORDER BY clause.
searchRank(row, lowerQuery) ==
    IF Lower(Chars(row.hostname)) = lowerQuery THEN 1
    ELSE IF Lower(Chars(row.company_name)) = lowerQuery THEN 2
    ELSE IF StartsWith(Lower(Chars(row.hostname)), lowerQuery) THEN 3
    ELSE IF StartsWith(Lower(Chars(row.company_name)), lowerQuery) THEN 4
    ELSE 5

\* The rows the WHERE clause selects, each as <<hostname, rows strictly
\* before it, rows with its own key>>. The key of a row is its ORDER BY
\* columns: rank, visits DESC, created_at DESC.
searchRanked(s, lowerQuery) ==
    LET keyed == UNION {IF HasRow(s, h) /\ searchMatches(s[h], lowerQuery)
                        THEN {<<h, <<searchRank(s[h], lowerQuery), s[h].visits,
                                     s[h].created_at>>>>}
                        ELSE {} : h \in DOMAIN s}
        Before(a, b) ==
            \/ a[1] < b[1]
            \/ a[1] = b[1] /\ a[2] > b[2]
            \/ a[1] = b[1] /\ a[2] = b[2] /\ a[3] > b[3]
    IN  {<<p[1],
           Cardinality(UNION {IF Before(q[2], p[2]) THEN {q} ELSE {} : q \in keyed}),
           Cardinality(UNION {IF q[2] = p[2] THEN {q} ELSE {} : q \in keyed})>> :
            p \in keyed}

\* The sequences that go on from placed, row after row, up to limit rows:
\* the next row is any row whose place has come, after every row strictly
\* before it and among the rows with its own key, and that is not yet
\* placed.
RECURSIVE searchOrders(_, _, _)
searchOrders(ranked, placed, limit) ==
    IF Len(placed) = limit THEN {placed}
    ELSE UNION {searchOrders(ranked, Append(placed, p[1]), limit) :
                   p \in {q \in ranked :
                             /\ q[2] <= Len(placed)
                             /\ Len(placed) < q[2] + q[3]
                             /\ \A k \in (q[2] + 1)..Len(placed) :
                                    placed[k] # q[1]}}

\* searchAnalyses(query): the sequences of hostnames the query can return,
\* one for each order of the rows that tie, cut at SEARCH_LIMIT.
searchAnalyses(s, query) ==
    LET ranked == searchRanked(s, Lower(query))
        n == Cardinality(ranked)
    IN  searchOrders(ranked, << >>, IF n < SEARCH_LIMIT THEN n ELSE SEARCH_LIMIT)

\* handleSearch: 400 for a query that is empty or blank, else the rows the
\* record store returns for the trimmed query.
HandleSearch(query) ==
    /\ IF Trim(Chars(query)) = << >>
       THEN resp' = Response("search", 400, "required", Null, Null)
       ELSE \E found \in searchAnalyses(store, Trim(Chars(query))) :
               resp' = [Response("search", 200, "results", Null, Null)
                           EXCEPT !.results = found]
    /\ UNCHANGED <<store, jobs, now, reqs>>

----------------------------------------------------------------------------
(* GET /md/{hostname}: handleMd *)

\* A faulty availability check that forgets the error column.
MdAvailableDespiteError(analysis) ==
    /\ analysis # NoRow
    /\ analysis.status = "done"
    /\ ~IsNull(analysis.result)

\* The negation of handleMd's 404 condition, which is also the condition for
\* a competitor to be part of the report: the row exists, is done, has no
\* error and has a result.
MdAvailable(analysis) ==
    /\ analysis # NoRow
    /\ analysis.status = "done"
    /\ ~Truthy(analysis.error)
    /\ ~IsNull(analysis.result)

----------------------------------------------------------------------------
(* /admin: the data browser *)

\* The router's /admin case: identities outside ADMIN_USERNAMES get 401
\* "Admin only"; for the others the router hands the request and the record
\* store itself (do_stub.raw, the store's own authentication turned off) to
\* studioMiddleware of the package queryable-object and returns what it
\* answers.
HandleAdmin(i, ctx) ==
    /\ reqs[i].pc = "idle"
    /\ UNCHANGED <<store, jobs, now>>
    /\ IF ~IsAdmin(ctx)
       THEN Answer(i, Response("admin", 401, "admin_only", Null, Null))
       ELSE Await(i, [IdleReq EXCEPT !.pc = "studio"])

\* The studio runs the statement the administrator's request carries on
\* table analyses and answers. The statement is of the caller's choosing and
\* the package is not part of the repository, so its effect is any of the
\* outcomes: the table is only read (row is left), or the row of the
\* hostname is deleted (NoRow) or written as row.
HandleStudio(i, hostname, row, left) ==
    /\ reqs[i].pc = "studio"
    /\ store' = IF left THEN store ELSE [store EXCEPT ![hostname] = row]
    /\ Answer(i, Response("admin", 200, "studio", Null, Null))
    /\ UNCHANGED <<jobs, now>>
\* A faulty report handler that polls: it gives up on a pending record and
\* marks it failed.
HandleMdPolls(i, hostname) ==
    /\ reqs[i].pc = "idle"
    /\ store' = IF HasRow(store, hostname) /\ store[hostname].status = "pending"
                THEN updateAnalysisResult(store, hostname, Null,
                                          Some(ERR_FAILED), now)
                ELSE store
    /\ Answer(i, Response("md", 404, "not_found", Some(hostname), Null))
    /\ UNCHANGED <<jobs, now>>

\* The answer of handleMd with the competitors whose callbacks returned an
\* analysis (validCompetitorAnalyses), in the order of the stored result.
MdResponse(hostname, calls) ==
    [Response("md", 200, "markdown", Some(hostname), Null)
        EXCEPT !.sections = HostnamesAt(calls, {"valid"})]

\* getAnalysis of the hostname takes effect: 404 unless the row is
\* available; else the report, after one getAnalysis for every competitor
\* hostname of the stored result.
HandleMd(i, hostname) ==
    LET analysis == getAnalysis(store, hostname)
        competitorHostnames ==
            CompetitorHostnames(Val(analysis.result).output.content)
    IN
    /\ reqs[i].pc = "idle"
    /\ UNCHANGED <<store, jobs, now>>
    /\ IF ~MdAvailable(analysis)
       THEN Answer(i, Response("md", 404, "not_found", Some(hostname), Null))
       ELSE IF competitorHostnames = << >>
       THEN Answer(i, MdResponse(hostname, << >>))
       ELSE Await(i, [IdleReq EXCEPT
                         !.pc = "md", !.hostname = hostname,
                         !.calls = [k \in 1..Len(competitorHostnames) |->
                                       Callback(competitorHostnames[k])]])

\* A competitor's getAnalysis takes effect: its callback returns the row when
\* it is available (valid), else null. The report is answered once every
\* callback has returned.
HandleMdRead(i, k) ==
    LET r == reqs[i]
        compAnalysis == getAnalysis(store, r.calls[k].hostname)
        calls == [r.calls EXCEPT ![k].pc =
                     IF MdAvailable(compAnalysis) THEN "valid" ELSE "null"]
    IN
    /\ r.pc = "md"
    /\ k \in 1..Len(r.calls)
    /\ r.calls[k].pc = "get"
    /\ UNCHANGED <<store, jobs, now>>
    /\ IF \A j \in 1..Len(calls) : calls[j].pc # "get"
       THEN Answer(i, MdResponse(r.hostname, calls))
       ELSE Await(i, [r EXCEPT !.calls = calls])

----------------------------------------------------------------------------
(* The environment: the research service, its webhook sender, other senders
   of webhook requests, and the clock *)

\* Sequences over S of length at most n.
RECURSIVE SeqsUpTo(_, _)
SeqsUpTo(S, n) ==
    IF n = 0 THEN {<< >>}
    ELSE LET shorter == SeqsUpTo(S, n - 1)
         IN  shorter \cup {Append(q, x) : q \in shorter, x \in S}

\* Results that are not a well-formed analysis.
SpecialOutputs ==
    { \* company_fits_criteria is false
      JsonOutput(ObjectContent(Some(FALSE), Some("Acme Inc"), Some("SaaS"),
                               Some("summary"), Some(<<"bolt.io">>))),
      \* a text output
      [content |-> NoContent("string"), type |-> "text"],
      \* no content, and a null content
      JsonOutput(NoContent("undefined")),
      JsonOutput(NoContent("null")),
      \* one field is the empty string
      JsonOutput(ObjectContent(Some(TRUE), Some("Acme Inc"), Some("SaaS"),
                               Some(""), Some(<<"bolt.io">>))),
      \* no company_name, no category, no competitors array, an entry
      \* without a hostname
      JsonOutput(ObjectContent(Some(TRUE), Null, Some("SaaS"),
                               Some("summary"), Some(<<"bolt.io">>))),
      JsonOutput(ObjectContent(Null, Some("Acme Inc"), Null,
                               Some("summary"), Null)),
      JsonOutput(ObjectContent(Some(TRUE), Some("Acme Inc"), Some("SaaS"),
                               Some("summary"), Some(<<"", "cargo.dev">>))) }

\* A run finishes at the service: completed with a result, or failed.
JobCompletes(run_id, output) ==
    /\ run_id \in 1..Len(jobs)
    /\ jobs[run_id].status = "running"
    /\ jobs' = [jobs EXCEPT ![run_id] =
                   [@ EXCEPT !.status = "completed", !.output = output]]
    /\ UNCHANGED <<store, now, reqs, resp>>

JobFails(run_id, error) ==
    /\ run_id \in 1..Len(jobs)
    /\ jobs[run_id].status = "running"
    /\ jobs' = [jobs EXCEPT ![run_id] =
                   [@ EXCEPT !.status = "failed", !.error = error]]
    /\ UNCHANGED <<store, now, reqs, resp>>

\* Webhook requests. The service signs with the shared secret; anyone else
\* can only send a request whose signature the secret does not produce.
Candidate(version, secret, webhookId, webhookTimestamp, body) ==
    [version |-> version,
     sig |-> HmacBase64(secret, SignedPayload(webhookId, webhookTimestamp, body))]

SignedRequest(event) ==
    [body |-> JsonStringify(event), method |-> "POST", id |-> Some("msg_1"),
     timestamp |-> Some("1757600000"),
     signature |-> Some(<<Candidate("v1", PARALLEL_WEBHOOK_SECRET, "msg_1",
                                    "1757600000", JsonStringify(event))>>)]

\* The request the service sends for run r, signed with a rotated-out key
\* and with the current one.
ServiceRequest(js, r) ==
    [SignedRequest(StatusEvent(js, r)) EXCEPT !.signature =
        Some(<<Candidate("v1", "whsec_old", "msg_1", "1757600000",
                         JsonStringify(StatusEvent(js, r)))>> \o Val(@))]

\* Requests the service sends for the runs it holds, and for a foreign task.
ServiceRequests(js) ==
    {ServiceRequest(js, r) : r \in 1..Len(js)} \cup
    {SignedRequest([data |-> [error |-> Null, status |-> "completed",
                              metadata |-> Null, run_id |-> 0],
                    type |-> "task_run.status"])}

\* A body claiming that run r completed, whatever the service says.
ClaimedCompleted(js, r) ==
    [StatusEvent(js, r) EXCEPT !.data.status = "completed"]

\* Requests the handler must reject, about the latest run. Each claims that
\* the run completed and is otherwise a request the service could have sent,
\* but for: the method;
WrongMethod(js) ==
    IF js = << >> THEN {}
    ELSE {[SignedRequest(ClaimedCompleted(js, Len(js))) EXCEPT !.method = "GET"]}

\* a missing or empty required header;
MissingHeader(js) ==
    IF js = << >> THEN {}
    ELSE LET good == SignedRequest(ClaimedCompleted(js, Len(js)))
         IN  { [good EXCEPT !.id = Null],
               [good EXCEPT !.id = Some("")],
               [good EXCEPT !.timestamp = Null],
               [good EXCEPT !.signature = Null] }

\* a signature under another key, under another version, or made by the
\* service for a different body.
BadSignature(js) ==
    IF js = << >> THEN {}
    ELSE LET r == Len(js)
             good == SignedRequest(ClaimedCompleted(js, r))
         IN  { [good EXCEPT !.signature =
                   Some(<<Candidate("v1", "whsec_guess", "msg_1", "1757600000",
                                    good.body)>>)],
               [good EXCEPT !.signature =
                   Some(<<Candidate("v2", PARALLEL_WEBHOOK_SECRET, "msg_1",
                                    "1757600000", good.body)>>)],
               [SignedRequest([StatusEvent(js, r) EXCEPT !.data.status = "running"])
                   EXCEPT !.body = good.body] }

\* The clock jumps to the end of the freshness window, then moves on by
\* single milliseconds.
Tick ==
    /\ now' = IF now < FRESH_DAYS * MS_PER_DAY THEN FRESH_DAYS * MS_PER_DAY
              ELSE now + 1
    /\ now' <= FRESH_DAYS * MS_PER_DAY + MaxSkewMs
    /\ UNCHANGED <<store, jobs, reqs, resp>>

\* A detail-page view that the model counts: of a hostname without a row, or
\* with a row whose visits are below the bound.
Countable(hostname) ==
    IF HasRow(store, hostname) THEN store[hostname].visits < MaxVisits ELSE TRUE

----------------------------------------------------------------------------
(* Initial states *)

\* A row created before the schema epoch by an earlier deployment.
LEGACY_CREATED == NEW_VERSION_DATE - 1

\* The clock of a run that starts past the freshness window of the epoch.
LateClock == FRESH_DAYS * MS_PER_DAY + MaxSkewMs

\* A finished, error-free row as updateAnalysisResultWithData leaves it.
DoneRow(hostname, username, created, updated) ==
    LET meta == Metadata(hostname, FALSE, Some(username), Some(ProfileImage(username)))
        result == [output |-> GoodOutput(<< >>),
                   run |-> [metadata |-> meta, run_id |-> 0]]
    IN  [PendingRow(hostname, Some(username), Some(ProfileImage(username)), created)
            EXCEPT !.status = "done", !.result = Some(result),
                   !.updated_at = updated,
                   !.company_name = "Acme Inc", !.category = Some("SaaS"),
                   !.business_description = Some("does things"),
                   !.industry_sector = Some("software"),
                   !.keywords = Some("tools, apps")]

\* A finished row as updateAnalysisResult leaves it after a failed run.
ErrorRow(hostname, username, created, updated) ==
    [PendingRow(hostname, Some(username), Some(ProfileImage(username)), created)
        EXCEPT !.status = "done", !.error = Some(ERR_FAILED),
               !.updated_at = updated]

\* The rows a hostname can have when a run starts at the given clock:
\* "fresh" and "errored" were created and finished at the clock; "legacy"
\* before the epoch; "aged" at the epoch; "slow" was created at the epoch
\* and finished within the freshness window of the clock; "stranded" is a
\* record created at the epoch whose event never came.
RowKinds == {"none", "fresh", "errored", "legacy", "aged", "slow"}

SeedRow(kind, hostname, username, clock) ==
    CASE kind = "none" -> NoRow
      [] kind = "fresh" -> DoneRow(hostname, username, clock, clock)
      [] kind = "errored" -> ErrorRow(hostname, username, clock, clock)
      [] kind = "legacy" -> DoneRow(hostname, username, LEGACY_CREATED, LEGACY_CREATED)
      [] kind = "aged" -> DoneRow(hostname, username, NEW_VERSION_DATE, NEW_VERSION_DATE)
      [] kind = "slow" -> DoneRow(hostname, username, NEW_VERSION_DATE,
                                  FRESH_DAYS * MS_PER_DAY)
      [] kind = "stranded" ->
            PendingRow(hostname, Some(username), Some(ProfileImage(username)),
                       NEW_VERSION_DATE)

\* The table when a run starts: owner owns the first k of OwnedHosts, and
\* the hostnames of seeds (a function from hostnames to rows) have their row.
InitialStore(k, owner, seeds, clock) ==
    [h \in AllHosts |->
        IF \E i \in 1..k : OwnedHosts[i] = h THEN DoneRow(h, owner, clock, clock)
        ELSE IF h \in DOMAIN seeds THEN seeds[h]
        ELSE NoRow]

NoSeeds == [h \in {} |-> NoRow]

\* The requests, results and failures the behaviours of Spec range over: one
\* identity asks for acme.com; the first run's result takes every shape and
\* the second run's result names one competitor.
FirstCompany == Some("acme.com")

\* The steps of the webhook handler of slot i after its first.
WebhookSteps(i) ==
    \/ HandleWebhookText(i)
    \/ HandleWebhookVerify(i)
    \/ \E fetchOk \in BOOLEAN : HandleWebhookFetch(i, fetchOk)
    \/ \E k \in 1..MaxCompetitors : HandleFanOutCheck(i, k)
    \/ \E k \in 1..MaxCompetitors, ok \in BOOLEAN : HandleFanOutSubmit(i, k, ok)
    \/ \E k \in 1..MaxCompetitors : HandleFanOutCreate(i, k)
    \/ HandleWebhookUpdate(i)

Init ==
    /\ store = InitialStore(0, "alice", NoSeeds, 0)
    /\ jobs = << >>
    /\ now = 0
    /\ reqs = [i \in 1..MaxInflight |-> IdleReq]
    /\ resp = NoResponse

Next ==
    \/ jobs = << >> /\ HandleNewBegin(1, FirstCompany, Identity("alice"))
    \/ HandleNewValidate(1, TRUE)
    \/ HandleNewCount(1)
    \/ \E ok \in BOOLEAN : HandleNewSubmit(1, ok)
    \/ HandleNewCreate(1)
    \/ \E req \in WrongMethod(jobs) \cup MissingHeader(jobs)
                  \cup BadSignature(jobs) \cup ServiceRequests(jobs) :
          HandleWebhook(2, req)
    \/ WebhookSteps(2)
    \/ \E output \in SpecialOutputs \cup {GoodOutput(<< >>), GoodOutput(<<"bolt.io">>),
                             GoodOutput(<<"bolt.io", "cargo.dev">>)} :
          JobCompletes(1, output)
    \/ JobCompletes(2, GoodOutput(<<"bolt.io">>))
    \/ \E error \in {Null, Some([message |-> Some("Task timed out")])} : JobFails(1, error)

Spec == Init /\ [][Next]_vars

\* The fan-out over a table that already holds competitor rows: alice, one
\* record short of the limit, asks for acme.com at LateClock; bolt.io and
\* cargo.dev start with a row of any kind, and the result names any
\* competitors.
InitFanout ==
    /\ \E kb \in RowKinds, kc \in RowKinds :
          store = InitialStore(ANALYSIS_LIMIT - 1, "alice",
                      [h \in {"bolt.io", "cargo.dev"} |->
                          SeedRow(IF h = "bolt.io" THEN kb ELSE kc, h,
                                  "janwilmake", LateClock)],
                      LateClock)
    /\ jobs = << >>
    /\ now = LateClock
    /\ reqs = [i \in 1..MaxInflight |-> IdleReq]
    /\ resp = NoResponse

NextFanout ==
    \/ jobs = << >> /\ HandleNewBegin(1, FirstCompany, Identity("alice"))
    \/ HandleNewValidate(1, TRUE)
    \/ HandleNewCount(1)
    \/ HandleNewSubmit(1, TRUE)
    \/ HandleNewCreate(1)
    \/ \E comps \in SeqsUpTo(Hosts, MaxCompetitors) : JobCompletes(1, GoodOutput(comps))
    \/ jobs # << >> /\ HandleWebhook(2, ServiceRequest(jobs, 1))
    \/ HandleWebhookText(2)
    \/ HandleWebhookVerify(2)
    \/ HandleWebhookFetch(2, TRUE)
    \/ \E k \in 1..MaxCompetitors : HandleFanOutCheck(2, k)
    \/ \E k \in 1..MaxCompetitors : HandleFanOutSubmit(2, k, TRUE)
    \/ \E k \in 1..MaxCompetitors : HandleFanOutCreate(2, k)
    \/ HandleWebhookUpdate(2)

SpecFanout == InitFanout /\ [][NextFanout]_vars

\* The /new page over a table that already holds rows: one identity owns k
\* records, acme.com has a row of some kind owned by either identity, and
\* any caller asks for any company while the clock runs past the freshness
\* window and the detail page of acme.com is viewed.
InitNew ==
    /\ \E k \in {ANALYSIS_LIMIT - 1, ANALYSIS_LIMIT}, owner \in Users,
          kind \in {"none", "fresh", "errored", "legacy"}, u \in Users :
          store = InitialStore(k, owner,
                      [h \in {"acme.com"} |-> SeedRow(kind, h, u, 0)], 0)
    /\ jobs = << >>
    /\ now = 0
    /\ reqs = [i \in 1..MaxInflight |-> IdleReq]
    /\ resp = NoResponse

NewCompanies ==
    {Null, Some("  "), Some(" ACME.com "), Some("localhost")}

NextNew ==
    \/ \E company \in NewCompanies, ctx \in Contexts :
          HandleNewBegin(1, company, ctx)
    \/ HandleNewDelete(1)
    \/ \E dnsOk \in BOOLEAN : HandleNewValidate(1, dnsOk)
    \/ HandleNewCount(1)
    \/ \E ok \in BOOLEAN : HandleNewSubmit(1, ok)
    \/ HandleNewCreate(1)
    \/ Countable("acme.com") /\ HandleResult(2, "acme.com")
    \/ HandleResultVisit(2)
    \/ Tick

SpecNew == InitNew /\ [][NextNew]_vars

\* The whole flow: alice asks for acme.com at LateClock, the run's result is
\* well-formed or trips a gate, its event is delivered (also tampered with,
\* also with a result fetch that throws), and the detail page and the
\* Markdown report of any hostname are viewed meanwhile. bolt.io starts
\* without a row or with a finished one; acme.com starts without a row,
\* with a row that carries an error, or with a record that has been pending
\* since the epoch, and /new deletes either before it goes on. Anyone asks
\* for /admin, and the statement an administrator runs in the data browser
\* reads the table, deletes the row of acme.com, or writes it as a pending,
\* a finished or an errored row.
FlowOutputs ==
    { GoodOutput(<<"bolt.io", "cargo.dev">>),
      \* company_fits_criteria is false, and nothing else is right either
      JsonOutput(ObjectContent(Some(FALSE), Null, Some("SaaS"),
                               Some(""), Some(<<"bolt.io">>))),
      \* one field is the empty string
      JsonOutput(ObjectContent(Some(TRUE), Some("Acme Inc"), Some("SaaS"),
                               Some(""), Some(<<"bolt.io">>))),
      \* no content
      JsonOutput(NoContent("undefined")) }

\* The event of run r with its status changed to failed on the way.
TamperedBody(js, r) == [StatusEvent(js, r) EXCEPT !.data.status = "failed"]

\* The runs whose events are tampered with: the first, once it has completed.
TamperedRuns(js) == {r \in 1..Len(js) : r = 1 /\ js[r].status = "completed"}

\* The hostnames whose pages are viewed.
ViewedHosts == {"acme.com", "bolt.io"}

\* Requests whose body was tampered with: under the signature the service
\* made for the original body; under a signature made for the new body; and
\* under the signature the service made, with the start of the body moved
\* into the webhook-timestamp header.
TamperedKeepingSignature(js) ==
    {[SignedRequest(StatusEvent(js, r)) EXCEPT
         !.body = JsonStringify(TamperedBody(js, r))] : r \in TamperedRuns(js)}

TamperedResigned(js) ==
    {SignedRequest(TamperedBody(js, r)) :
        r \in TamperedRuns(js)}

TamperedShifted(js) ==
    {[SignedRequest(StatusEvent(js, r)) EXCEPT
         !.timestamp = Some(SHIFTED_TIMESTAMP),
         !.body = <<[json |-> StatusEvent(js, r)]>>] : r \in TamperedRuns(js)}

InitFlow ==
    /\ \E ka \in {"none", "errored", "stranded"}, kb \in {"none", "fresh"} :
          store = InitialStore(0, "alice",
                      [h \in {"acme.com", "bolt.io"} |->
                          IF h = "acme.com"
                          THEN SeedRow(ka, h, "alice", LateClock)
                          ELSE SeedRow(kb, h, "janwilmake", LateClock)],
                      LateClock)
    /\ jobs = << >>
    /\ now = LateClock
    /\ reqs = [i \in 1..MaxInflight |-> IdleReq]
    /\ resp = NoResponse

NextFlow ==
    \/ jobs = << >> /\ HandleNewBegin(1, FirstCompany, Identity("alice"))
    \/ HandleNewDelete(1)
    \/ HandleNewValidate(1, TRUE)
    \/ HandleNewCount(1)
    \/ \E ok \in BOOLEAN : HandleNewSubmit(1, ok)
    \/ HandleNewCreate(1)
    \/ \E output \in FlowOutputs : JobCompletes(1, output)
    \/ jobs # << >> /\ HandleWebhook(2, ServiceRequest(jobs, 1))
    \/ \E req \in TamperedKeepingSignature(jobs) \cup TamperedResigned(jobs)
                  \cup TamperedShifted(jobs) : HandleWebhook(2, req)
    \/ WebhookSteps(2)
    \/ Countable("acme.com") /\ HandleResult(1, "acme.com")
    \/ HandleResultVisit(1)
    \/ \E hostname \in ViewedHosts : HandleMd(1, hostname)
    \/ \E k \in 1..MaxCompetitors : HandleMdRead(1, k)
    \/ \E ctx \in Contexts \cup {Identity(u) : u \in ADMIN_USERNAMES} :
          HandleAdmin(1, ctx)
    \/ \E left \in BOOLEAN,
          row \in {NoRow,
                   PendingRow("acme.com", Some("alice"),
                              Some(ProfileImage("alice")), LateClock),
                   DoneRow("acme.com", "alice", LateClock, LateClock),
                   ErrorRow("acme.com", "alice", LateClock, LateClock)} :
          HandleStudio(1, "acme.com", row, left)

SpecFlow == InitFlow /\ [][NextFlow]_vars

\* Two requests in flight at once: either identity asks for acme.com, which
\* has no row or a row with an error, and each request suspends at every
\* await of handleNew and performAnalysis.
InitRace ==
    /\ \E kind \in {"none", "errored"} :
          store = InitialStore(0, "alice",
                      [h \in {"acme.com"} |-> SeedRow(kind, h, "alice", 0)], 0)
    /\ jobs = << >>
    /\ now = 0
    /\ reqs = [i \in 1..MaxInflight |-> IdleReq]
    /\ resp = NoResponse

NextRace ==
    \/ \E i \in 1..2, u \in Users : HandleNewBegin(i, FirstCompany, Identity(u))
    \/ \E i \in 1..2 : HandleNewDelete(i)
    \/ \E i \in 1..2 : HandleNewValidate(i, TRUE)
    \/ \E i \in 1..2 : HandleNewCount(i)
    \/ \E i \in 1..2, ok \in BOOLEAN : HandleNewSubmit(i, ok)
    \/ \E i \in 1..2 : HandleNewCreate(i)

SpecRace == InitRace /\ [][NextRace]_vars

\* Searching a table of finished and pending records: acme.com has a
\* finished record or none; bolt.io is pending, or finished with keywords
\* that mention acme.com, or absent; cargo.dev is finished under a company
\* name that is the text "ACME.com" or "Acme", or absent. The table of
\* three finished records also comes with further finished records whose
\* keywords mention acme.com, created one after the other: as many as make
\* SEARCH_LIMIT records in all, or MaxFillers, which is more than a search
\* returns. Records are viewed, which orders them by visits, and searched
\* for.
SearchRow(kind, hostname) ==
    LET done == DoneRow(hostname, "janwilmake", 0, 0) IN
    CASE kind = "none" -> NoRow
      [] kind = "done" -> done
      [] kind = "pending" ->
            PendingRow(hostname, Some("alice"), Some(ProfileImage("alice")), 0)
      [] kind = "rival" ->
            [done EXCEPT !.company_name = "Bolt", !.keywords = Some("acme.com rival")]
      [] kind = "named_as_domain" -> [done EXCEPT !.company_name = "ACME.com"]
      [] kind = "named_acme" -> [done EXCEPT !.company_name = "Acme"]

SearchQueries == {"", "  ", " ACME.com ", "acme", "saas", "Bolt"}

InitSearch ==
    /\ \E ka \in {"none", "done"}, kb \in {"none", "pending", "rival"},
          kc \in {"none", "named_as_domain", "named_acme"},
          n \in {0, SEARCH_LIMIT - Cardinality(Hosts), MaxFillers} :
          /\ n > 0 => ka = "done" /\ kb = "rival" /\ kc = "named_as_domain"
          /\ store = [h \in AllHosts \cup {SearchFillers[k] : k \in 1..MaxFillers} |->
                         CASE h = "acme.com" -> SearchRow(ka, h)
                           [] h = "bolt.io" -> SearchRow(kb, h)
                           [] h = "cargo.dev" -> SearchRow(kc, h)
                           [] \E k \in 1..n : SearchFillers[k] = h ->
                                 LET k == CHOOSE j \in 1..n : SearchFillers[j] = h
                                 IN  [DoneRow("cargo.dev", "janwilmake", k, k)
                                         EXCEPT !.hostname = h,
                                                !.keywords = Some("acme.com rival"),
                                                !.company_domain = h]
                           [] OTHER -> NoRow]
    /\ jobs = << >>
    /\ now = 0
    /\ reqs = [i \in 1..MaxInflight |-> IdleReq]
    /\ resp = NoResponse

NextSearch ==
    \/ \E query \in SearchQueries : HandleSearch(query)
    \/ \E hostname \in Hosts : Countable(hostname) /\ HandleResult(1, hostname)
    \/ HandleResultVisit(1)

SpecSearch == InitSearch /\ [][NextSearch]_vars

\* Asking again: alice asks for acme.com, the run's event is handled (the
\* result fetch may throw, which leaves the record with an error), and she
\* asks again, which deletes the record and submits another run; the
\* events of all runs keep arriving. A run's result is the full one or one
\* without a category and without competitors.
InitRedo ==
    /\ store = InitialStore(0, "alice", NoSeeds, 0)
    /\ jobs = << >>
    /\ now = 0
    /\ reqs = [i \in 1..MaxInflight |-> IdleReq]
    /\ resp = NoResponse

NextRedo ==
    \/ HandleNewBegin(1, FirstCompany, Identity("alice"))
    \/ HandleNewDelete(1)
    \/ HandleNewValidate(1, TRUE)
    \/ HandleNewCount(1)
    \/ HandleNewSubmit(1, TRUE)
    \/ HandleNewCreate(1)
    \/ \E run_id \in 1..MaxJobs,
          output \in {GoodOutput(<< >>),
                      JsonOutput(ObjectContent(Some(TRUE), Some("Acme Inc"), Null,
                                               Some("summary"), Null))} :
          JobCompletes(run_id, output)
    \/ \E run_id \in 1..MaxJobs : JobFails(run_id, Null)
    \/ \E req \in ServiceRequests(jobs) : HandleWebhook(2, req)
    \/ HandleWebhookText(2)
    \/ HandleWebhookVerify(2)
    \/ \E fetchOk \in BOOLEAN : HandleWebhookFetch(2, fetchOk)
    \/ HandleWebhookUpdate(2)

SpecRedo == InitRedo /\ [][NextRedo]_vars

\* The same event delivered to two handlers at once: alice's deep run for
\* acme.com has completed with a result that names bolt.io, which has no
\* row, and the service sends the event twice.
InitTwice ==
    /\ store = [InitialStore(0, "alice", NoSeeds, 0) EXCEPT !["acme.com"] =
                   PendingRow("acme.com", Some("alice"),
                              Some(ProfileImage("alice")), 0)]
    /\ jobs = <<[NewJob(Metadata("acme.com", TRUE, Some("alice"),
                                 Some(ProfileImage("alice"))))
                    EXCEPT !.status = "completed",
                           !.output = GoodOutput(<<"bolt.io">>)]>>
    /\ now = 0
    /\ reqs = [i \in 1..MaxInflight |-> IdleReq]
    /\ resp = NoResponse

NextTwice ==
    \/ \E i \in 1..2 : HandleWebhook(i, ServiceRequest(jobs, 1))
    \/ \E i \in 1..2 : WebhookSteps(i)

SpecTwice == InitTwice /\ [][NextTwice]_vars

----------------------------------------------------------------------------
(* Properties of the webhook handler *)

\* The slots a handler can run in.
Slots == 1..MaxInflight

\* The elements of a sequence.
Range(seq) == {seq[k] : k \in 1..Len(seq)}

\* A candidate of the request's signature header is the v1 signature of the
\* request's id, timestamp and body under the secret.
Signed(req) ==
    \E k \in 1..Len(Val(req.signature)) :
        Val(req.signature)[k] =
            Candidate("v1", PARALLEL_WEBHOOK_SECRET, Val(req.id),
                      Val(req.timestamp), req.body)

\* The step answers with the given status having touched nothing: the
\* table and the service's runs are as before, no result was fetched,
\* nothing was submitted and the handler of slot i is gone.
RejectedUntouched(i, status) ==
    /\ resp'.op = "webhook" /\ resp'.status = status
    /\ ~resp'.fetched
    /\ resp'.attempted = << >>
    /\ store' = store
    /\ jobs' = jobs
    /\ reqs'[i] = IdleReq

\* The step leaves the table, the service's runs and the last answer as
\* they were.
Untouched == store' = store /\ jobs' = jobs /\ resp' = resp

\* C1: handleWebhook rejects a request that is not a POST with 405, one that
\* lacks the webhook-id, webhook-timestamp or webhook-signature header with
\* 400, and one none of whose signature candidates matches with 401; in each
\* case the handler answers before it touches anything: up to the answer
\* the table is unchanged, no job result is fetched and no job is
\* submitted.
C1_RejectsBeforeStore ==
    [][\A i \in Slots :
           /\ \A req \in WrongMethod(jobs) :
                  HandleWebhook(i, req) => RejectedUntouched(i, 405)
           /\ \A req \in MissingHeader(jobs) :
                  HandleWebhook(i, req) => RejectedUntouched(i, 400)
           /\ \A req \in BadSignature(jobs) :
                  HandleWebhook(i, req)
                  => Untouched /\ reqs'[i].pc = "text" /\ reqs'[i].req = req
           /\ HandleWebhookText(i)
              => Untouched /\ reqs'[i].pc = "verify"
                           /\ reqs'[i].req = reqs[i].req
           /\ (HandleWebhookVerify(i) /\ ~Signed(reqs[i].req))
              => RejectedUntouched(i, 401)]_vars

\* A forged claim that the run completed was answered 401 while the run's
\* record was pending and the run had completed at the service.
C1_Witness ==
    /\ resp.op = "webhook" /\ resp.status = 401
    /\ jobs # << >>
    /\ jobs[Len(jobs)].status = "completed"
    /\ HasRow(store, jobs[Len(jobs)].metadata.hostname)
    /\ store[jobs[Len(jobs)].metadata.hostname].status = "pending"

\* The event a request carries.
EventOf(req) == Val(JsonParse(req.body))

\* The request is signed and carries a task_run.status event with status
\* completed or failed that names a hostname.
TerminalEvent(req) ==
    /\ Signed(req)
    /\ JsonParse(req.body) # Null
    /\ EventOf(req).type = "task_run.status"
    /\ EventOf(req).data.status \in {"completed", "failed"}
    /\ Truthy(EventHostname(EventOf(req)))

\* The handler r is between its event and its answer.
Handling(r) == r.pc \in {"fetch", "fanout", "update"}

\* C2: a signature-valid completed or failed event that names a hostname is
\* not answered before the record's update; and whatever the handler meets
\* on the way (a quality gate, a result fetch that throws, a fan-out
\* submission that throws, success), when it answers, the hostname's record,
\* if there is one, is done.
C2_EventLeavesDone ==
    [][\A i \in Slots :
           /\ \A req \in ServiceRequests(jobs) :
                  HandleWebhook(i, req)
                  => reqs'[i].pc = "text" /\ reqs'[i].req = req
           /\ (HandleWebhookVerify(i) /\ TerminalEvent(reqs[i].req))
              => /\ Handling(reqs'[i])
                 /\ reqs'[i].hostname =
                        Val(EventHostname(EventOf(reqs[i].req)))
           /\ (Handling(reqs[i]) /\ ~Handling(reqs'[i]))
              => /\ resp'.op = "webhook" /\ resp'.status = 200
                 /\ resp'.hostname = Some(reqs[i].hostname)
                 /\ HasRow(store, reqs[i].hostname)
                       => /\ HasRow(store', reqs[i].hostname)
                          /\ store'[reqs[i].hostname].status = "done"]_vars

\* A submission of the fan-out has thrown, the catch block has handled it,
\* and the record is done with the catch block's error.
C2_Witness ==
    /\ resp.op = "webhook" /\ resp.branch = "caught"
    /\ resp.attempted # << >>
    /\ HasRow(store, Val(resp.hostname))
    /\ store[Val(resp.hostname)].status = "done"
    /\ store[Val(resp.hostname)].error = Some(ErrorFetchingResult(MSG_SUBMIT))

\* The terminal fields of a row, and what identifies the row.
Terminal(row) ==
    [result |-> row.result, error |-> row.error, status |-> row.status,
     created_at |-> row.created_at]

\* C3: the webhook handler only takes a record from pending to done: a
\* record that is already done keeps its status, result and error whatever
\* event is handled later or again, and is neither deleted nor replaced by
\* a new row.
C3_DoneWrittenOnce ==
    [][\A h \in AllHosts :
           (HasRow(store, h) /\ store[h].status = "done")
               => /\ HasRow(store', h)
                  /\ Terminal(store'[h]) = Terminal(store[h])]_vars

\* Staleness as the record's age: created before the schema epoch or more
\* than FRESH_DAYS days ago.
StaleRecord(row, clock) == isAnalysisOld(row.created_at, clock)

\* C4: when a deep run completes successfully, a competitor hostname of its
\* result gets a submission iff, when the fan-out looks it up, it has no
\* record, or its record has an error, or its record is stale by its
\* created_at.
C4_FanOutSubmitsIff ==
    [][\A i \in Slots, k \in 1..MaxCompetitors :
           (HandleFanOutCheck(i, k) /\ reqs[i].pc = "fanout")
           => LET h == reqs[i].calls[k].hostname IN
              (reqs'[i].calls[k].pc = "submit")
                  <=> \/ ~HasRow(store, h)
                      \/ Truthy(store[h].error)
                      \/ StaleRecord(store[h], now)]_vars

\* C5: every run the fan-out submits has isDeep false and the username and
\* profile_image_url of the run whose completion is handled; the handler of
\* the completion of a run that is not deep starts no fan-out, submits no
\* run and creates or replaces no record; the run handleNew submits is deep.
C5_OneLevel ==
    [][\A i \in Slots :
           /\ \A k \in 1..MaxCompetitors :
                  HandleFanOutSubmit(i, k, TRUE)
                  => LET origin == jobs[reqs[i].run_id].metadata IN
                     jobs' = Append(jobs,
                                NewJob(Metadata(reqs[i].calls[k].hostname, FALSE,
                                                origin.username,
                                                origin.profile_image_url)))
           /\ (HandleWebhookFetch(i, TRUE)
                   /\ ~jobs[reqs[i].run_id].metadata.isDeep)
              => reqs'[i].pc = "update" /\ reqs'[i].calls = << >>
           /\ (HandleWebhookUpdate(i) /\ reqs[i].calls = << >>)
              => /\ jobs' = jobs
                 /\ \A h \in AllHosts :
                        /\ HasRow(store', h) <=> HasRow(store, h)
                        /\ HasRow(store, h) =>
                              store'[h].created_at = store[h].created_at
           /\ HandleNewSubmit(i, TRUE)
              => jobs' = Append(jobs,
                            NewJob(Metadata(reqs[i].hostname, TRUE,
                                            reqs[i].ctx.username,
                                            reqs[i].ctx.profile_image_url)))]_vars

\* The completion of a run that is not deep, whose result names a
\* competitor, has been handled with success.
C5_Witness ==
    /\ resp.op = "webhook" /\ resp.branch = "success"
    /\ resp.attempted = << >>
    /\ \E k \in 1..Len(jobs) :
          /\ resp.run_id = k
          /\ ~jobs[k].metadata.isDeep
          /\ jobs[k].status = "completed"
          /\ CompetitorHostnames(jobs[k].output.content) # << >>
          /\ resp.hostname = Some(jobs[k].metadata.hostname)
          /\ HasRow(store, jobs[k].metadata.hostname)
          /\ store[jobs[k].metadata.hostname].status = "done"
          /\ store[jobs[k].metadata.hostname].error = Null

\* C6: when the submission for a competitor throws during the fan-out, the
\* parent record still ends done with no error and with its result stored
\* when the handler answers.
C6_FanOutFailureIsolated ==
    [][\A i \in Slots :
           (/\ HandleWebhookUpdate(i)
            /\ ~UpdateThrows(store, reqs[i])
            /\ \E k \in 1..Len(reqs[i].calls) : reqs[i].calls[k].pc = "failed"
            /\ HasRow(store, reqs[i].hostname))
           => /\ store'[reqs[i].hostname].status = "done"
              /\ store'[reqs[i].hostname].error = Null
              /\ store'[reqs[i].hostname].result # Null]_vars

\* The persisted fields of a row that C7 compares.
Persisted(row) ==
    IF row = NoRow THEN NoRow
    ELSE [result |-> row.result, error |-> row.error, status |-> row.status,
          company_name |-> row.company_name, category |-> row.category,
          business_description |-> row.business_description,
          industry_sector |-> row.industry_sector, keywords |-> row.keywords]

\* C7: when the completed event of a run is handled again right after it
\* was handled (the last answer was the one to the same run's completed
\* event), the second handling leaves the record as the first left it
\* (status, result, error and the denormalized fields) and submits nothing
\* for a competitor whose run the first delivery submitted.
C7_DuplicateDelivery ==
    [][\A i \in Slots :
           (/\ HandleWebhookUpdate(i)
            /\ ~UpdateThrows(store, reqs[i])
            /\ reqs[i].fetched
            /\ resp.op = "webhook" /\ resp.status = 200 /\ resp.fetched
            /\ resp.run_id = reqs[i].run_id
            /\ HasRow(store, reqs[i].hostname))
           => /\ Persisted(store'[reqs[i].hostname])
                     = Persisted(store[reqs[i].hostname])
              /\ Range(Attempted(reqs[i])) \cap Range(resp.submitted) = {}]_vars

----------------------------------------------------------------------------
(* Properties of the /new page *)

\* The name the table knows the caller by.
Owner(ctx) == IF IsNull(ctx.username) THEN "" ELSE Val(ctx.username)

\* The records the caller of the request in slot i owned when the request
\* read the hostname's row, where no other handler creates or deletes a row
\* meanwhile: those the caller owns now and the row the request has deleted.
OwnedWhenAsked(i) ==
    getUserAnalysisCount(store, Owner(reqs[i].ctx))
        + (IF /\ reqs[i].deleted
              /\ reqs[i].existingAnalysis # NoRow
              /\ reqs[i].existingAnalysis.username = Owner(reqs[i].ctx)
           THEN 1 ELSE 0)

\* The request of slot i gets 429 in this step, and nothing else happens.
AnswersQuota(i) ==
    /\ resp'.op = "new" /\ resp'.status = 429
    /\ reqs'[i] = IdleReq
    /\ store' = store
    /\ jobs' = jobs

\* C8 as stated: a logged-in identity that is no admin and owned
\* ANALYSIS_LIMIT or more records when it asked gets 429, no submission and
\* no record; an admin's request goes on to the submission.
C8_QuotaWhenAsking ==
    [][\A i \in Slots :
           HandleNewCount(i)
           => IF IsAdmin(reqs[i].ctx) THEN reqs'[i].pc = "submit"
              ELSE OwnedWhenAsked(i) >= ANALYSIS_LIMIT => AnswersQuota(i)]_vars

\* C8, amended: the records are counted by getUserAnalysisCount, after the
\* requested hostname's stale or errored record has been deleted. An
\* identity that is no admin and then owns ANALYSIS_LIMIT or more gets 429,
\* no submission and no record; one that then owns fewer, and any admin,
\* goes on to the submission.
C8_QuotaAfterDelete ==
    [][\A i \in Slots :
           HandleNewCount(i)
           => IF IsAdmin(reqs[i].ctx) THEN reqs'[i].pc = "submit"
              ELSE IF getUserAnalysisCount(store, Owner(reqs[i].ctx))
                          >= ANALYSIS_LIMIT
              THEN AnswersQuota(i)
              ELSE reqs'[i].pc = "submit" /\ store' = store /\ jobs' = jobs]_vars

\* alice, owning ANALYSIS_LIMIT records, has been answered 429 for a
\* hostname without a record, and nothing was submitted.
C8_Witness ==
    /\ resp.op = "new" /\ resp.status = 429
    /\ resp.username = Some("alice")
    /\ getUserAnalysisCount(store, "alice") >= ANALYSIS_LIMIT
    /\ ~HasRow(store, Val(resp.hostname))
    /\ jobs = << >>

\* C9: an identity that is no admin never owns more than ANALYSIS_LIMIT
\* records, whether /new or the fan-out created them.
C9_AtMostLimit ==
    \A u \in Users \ ADMIN_USERNAMES :
        getUserAnalysisCount(store, u) <= ANALYSIS_LIMIT

\* C10: GET /new for a hostname with a record: a record that is not stale
\* and has no error is redirected to and nothing is deleted or submitted; a
\* stale or errored record asked for by a logged-in caller is deleted and
\* the request goes on until it creates the new pending record (unless the
\* submission itself fails); a stale record asked for by a caller who is not
\* logged in is redirected to and left as it is.
C10_ResubmissionPolicy ==
    [][\A i \in Slots :
           /\ \A company \in NewCompanies, ctx \in Contexts :
                  (/\ HandleNewBegin(i, company, ctx)
                   /\ ~IsBlank(company)
                   /\ HasRow(store, Normalize(Val(company))))
                  => LET hostname == Normalize(Val(company))
                         stale == StaleRecord(store[hostname], now)
                         errored == Truthy(store[hostname].error)
                     IN  /\ (~stale /\ ~errored)
                               => /\ resp'.op = "new" /\ resp'.status = 302
                                  /\ reqs'[i] = IdleReq
                         /\ ((stale \/ errored) /\ ctx.authenticated)
                               => reqs'[i].pc = "delete"
                         /\ (stale /\ ~ctx.authenticated)
                               => /\ resp'.op = "new" /\ resp'.status = 302
                                  /\ reqs'[i] = IdleReq
           /\ HandleNewDelete(i) => ~HasRow(store', reqs[i].hostname)
           /\ (/\ reqs[i].deleted
               /\ reqs[i].ctx.authenticated
               /\ reqs[i].pc \in {"dns", "count"})
              => reqs'[i].pc # "idle"]_vars

\* The row without its visits.
Unvisited(row) == IF row = NoRow THEN NoRow ELSE [row EXCEPT !.visits = 0]

\* C11: a GET /new request answered 400 (missing or invalid company), 401
\* (login required) or 429 (quota) leaves the table as it was: the row the
\* request found for its hostname, stale or errored as it may be, is still
\* there when the request is answered.
C11_RejectionLeavesStore ==
    [][\A i \in Slots :
           (/\ reqs[i].pc \in {"delete", "dns", "count"}
            /\ reqs'[i].pc = "idle"
            /\ resp'.status \in {400, 401, 429})
           => Unvisited(store'[reqs[i].hostname])
                  = Unvisited(reqs[i].existingAnalysis)]_vars

\* When taskRun.create throws in performAnalysis, handleNew answers 500 with
\* its generic message, the table is as it was (no pending row for the
\* hostname), no run exists at the service and the request is over (no
\* second attempt).
SubmissionFailureAnswered ==
    \A i \in Slots :
        HandleNewSubmit(i, FALSE)
        => /\ resp'.op = "new" /\ resp'.status = 500
           /\ resp'.branch = "submit_failed"
           /\ store' = store
           /\ jobs' = jobs
           /\ reqs'[i] = IdleReq

\* The step creates a pending record for h: the row is pending afterwards
\* and is not the row of before with, at most, another visit count.
WritesPending(h) ==
    /\ HasRow(store', h)
    /\ store'[h].status = "pending"
    /\ Unvisited(store'[h]) # Unvisited(store[h])

\* The step is the data browser running an administrator's statement.
StudioStep == \E i \in Slots : reqs[i].pc = "studio" /\ reqs'[i] = IdleReq

\* C12: a failed submission is answered 500 and leaves nothing behind; and
\* whenever a step of the worker's handlers creates a pending record (any
\* step but an administrator's own statement in the data browser), a run
\* for its hostname exists at the service, so its submission call had
\* returned.
C12_SubmissionFailure ==
    [][/\ SubmissionFailureAnswered
       /\ \A h \in AllHosts :
              (WritesPending(h) /\ ~StudioStep)
              => \E k \in 1..Len(jobs') : jobs'[k].metadata.hostname = h]_vars

\* The submission for acme.com failed: the answer is 500, there is no row
\* for acme.com and no run at the service.
C12_Witness ==
    /\ resp.op = "new" /\ resp.status = 500
    /\ resp.hostname = Some("acme.com")
    /\ ~HasRow(store, "acme.com")
    /\ jobs = << >>
    /\ reqs[1] = IdleReq

\* The creation times C13 is asked about: before the schema epoch, at the
\* epoch, and those of the rows in the table.
CreationTimes ==
    {LEGACY_CREATED, NEW_VERSION_DATE}
        \cup {store[h].created_at : h \in {g \in AllHosts : HasRow(store, g)}}

\* C13: isAnalysisOld(created_at) is true iff created_at is before the
\* schema epoch or now - created_at exceeds 14 days: created before the
\* epoch is stale whatever its age, created at or after the epoch and more
\* than 14 days ago is stale, within both bounds is not stale.
C13_StaleIff ==
    \A createdAt \in CreationTimes :
        LET beforeEpoch == createdAt < NEW_VERSION_DATE
            olderThan14Days == now - createdAt > 14 * MS_PER_DAY
        IN  /\ isAnalysisOld(createdAt, now) <=> (beforeEpoch \/ olderThan14Days)
            /\ beforeEpoch => isAnalysisOld(createdAt, now)
            /\ (~beforeEpoch /\ olderThan14Days) => isAnalysisOld(createdAt, now)
            /\ (~beforeEpoch /\ ~olderThan14Days) => ~isAnalysisOld(createdAt, now)

\* The clock has passed 14 days since the epoch, a record created at the
\* epoch is stale, and handleNew has deleted the record of acme.com for a
\* caller who asked for it again.
C13_Witness ==
    /\ now > 14 * MS_PER_DAY
    /\ resp.op = "new" /\ resp.hostname = Some("acme.com") /\ resp.deleted
    /\ \E h \in AllHosts :
          /\ HasRow(store, h)
          /\ store[h].created_at = NEW_VERSION_DATE
          /\ isAnalysisOld(store[h].created_at, now)

----------------------------------------------------------------------------
(* Properties of the quality gates *)

\* The fetched content has a field that is the empty string.
HasEmptyField(content) ==
    /\ content.kind = "object"
    /\ \E f \in {"company_name", "category", "business_description",
                 "industry_sector", "keywords", "executive_summary"} :
          content[f] = Some("")

\* The denormalized columns of a row.
Denormalized(row) ==
    [company_name |-> row.company_name, category |-> row.category,
     business_description |-> row.business_description,
     industry_sector |-> row.industry_sector, keywords |-> row.keywords]

\* C14: when the fetched result of a completed run (one that is not turned
\* away as not a company) has an empty-string field in its output and
\* nothing throws, the record ends done with the empty-strings error and
\* with the result stored, its denormalized columns are not written and no
\* competitor is submitted.
C14_EmptyStringGate ==
    [][\A i \in Slots :
           LET hostname == reqs[i].hostname
               content == jobs[reqs[i].run_id].output.content
           IN  (/\ HandleWebhookUpdate(i)
                /\ reqs[i].fetched
                /\ reqs[i].update.tag # "caught"
                /\ HasEmptyField(content)
                /\ content.company_fits_criteria # Some(FALSE)
                /\ HasRow(store, hostname))
               => /\ store'[hostname].status = "done"
                  /\ store'[hostname].error = Some(ERR_EMPTY)
                  /\ store'[hostname].result # Null
                  /\ Denormalized(store'[hostname]) = Denormalized(store[hostname])
                  /\ resp'.attempted = << >>]_vars

\* The rows the home page can list.
Listed(s) ==
    getPopularAnalyses(s, POPULAR_LIMIT) \cup getRecentAnalyses(s, RECENT_LIMIT)

\* C15: when the fetched result has company_fits_criteria false, the
\* handler goes straight to the update with the not-an-active-company error
\* and no result, whatever else is wrong with the result, and starts no
\* fan-out although the run is deep; that update leaves the record done
\* with the error, writes none of the denormalized columns, changes no
\* other row and submits nothing; and a record with that error is in
\* neither listing.
C15_NotACompany ==
    [][\A i \in Slots :
           /\ (/\ HandleWebhookFetch(i, TRUE)
               /\ jobs[reqs[i].run_id].output.content.kind = "object"
               /\ jobs[reqs[i].run_id].output.content.company_fits_criteria
                      = Some(FALSE))
              => /\ reqs'[i].pc = "update"
                 /\ reqs'[i].calls = << >>
                 /\ reqs'[i].update.kind = "plain"
                 /\ reqs'[i].update.tag = "not_company"
           /\ (HandleWebhookUpdate(i) /\ reqs[i].update.tag = "not_company")
              => LET hostname == reqs[i].hostname IN
                 /\ resp'.op = "webhook" /\ resp'.status = 200
                 /\ resp'.attempted = << >>
                 /\ jobs' = jobs
                 /\ reqs'[i] = IdleReq
                 /\ \A g \in AllHosts \ {hostname} : store'[g] = store[g]
                 /\ HasRow(store, hostname)
                       => /\ store'[hostname] =
                                 [store[hostname] EXCEPT
                                     !.status = "done", !.result = Null,
                                     !.error = Some(ERR_NOT_COMPANY),
                                     !.updated_at = now]
                          /\ hostname \notin Listed(store')
           /\ \A h \in AllHosts :
                  (HasRow(store', h) /\ store'[h].error = Some(ERR_NOT_COMPANY))
                      => h \notin Listed(store')]_vars

\* The deep run for acme.com, whose result is not a company and names
\* bolt.io, has been handled: acme.com is done with the error, bolt.io was
\* not submitted.
C15_Witness ==
    /\ resp.op = "webhook" /\ resp.status = 200
    /\ resp.branch = "not_company"
    /\ resp.hostname = Some("acme.com")
    /\ Len(jobs) = 1
    /\ jobs[1].metadata.isDeep
    /\ jobs[1].output.content.company_fits_criteria = Some(FALSE)
    /\ CompetitorHostnames(jobs[1].output.content) = <<"bolt.io">>
    /\ HasRow(store, "acme.com")
    /\ store["acme.com"].status = "done"
    /\ store["acme.com"].error = Some(ERR_NOT_COMPANY)
    /\ store["acme.com"].result = Null
    /\ ~HasRow(store, "bolt.io")

----------------------------------------------------------------------------
(* Properties of the detail page *)

\* createAnalysis writes the row of h in this step: a new record starts,
\* whether or not the hostname had a row before.
RecordStarts(h) ==
    \/ \E i \in Slots : HandleNewCreate(i) /\ reqs[i].hostname = h
    \/ \E i \in Slots, k \in 1..MaxCompetitors :
          HandleFanOutCreate(i, k) /\ reqs[i].calls[k].hostname = h

\* C16: while a record lives, its visits change only by 1 and only when it
\* is done with no error; a record that starts has visits 0, and a pending
\* record has visits 0.
C16_VisitsOnlyByView ==
    [][\A h \in AllHosts :
           /\ (HasRow(store, h) /\ HasRow(store', h) /\ ~RecordStarts(h)
                   /\ store'[h].visits # store[h].visits)
                 => /\ \E i \in Slots : HandleResultVisit(i) /\ reqs[i].hostname = h
                    /\ store[h].status = "done" /\ store[h].error = Null
                    /\ store'[h] = [store[h] EXCEPT !.visits = @ + 1]
           /\ RecordStarts(h) => store'[h].visits = 0
           /\ (HasRow(store', h) /\ store'[h].status = "pending")
                 => store'[h].visits = 0]_vars

----------------------------------------------------------------------------
(* Properties of the signature check *)

\* The webhook requests C17 is asked about: those of the service, those with
\* a signature that must not be accepted, and those tampered with.
SignatureCases ==
    ServiceRequests(jobs) \cup BadSignature(jobs)
        \cup TamperedKeepingSignature(jobs) \cup TamperedResigned(jobs)
        \cup TamperedShifted(jobs)

\* C17: verifyWebhookSignature accepts iff some candidate of the header is
\* v1 with the base64 HMAC-SHA256, under the secret, of id.timestamp.body
\* for the body received. So a request whose body was changed while its
\* signature header is the one the service made is answered 401 and changes
\* nothing, and one whose signature was made again for the changed body is
\* accepted and handled.
C17_SignatureIff ==
    [][\A i \in Slots :
           /\ \A req \in SignatureCases :
                  verifyWebhookSignature(PARALLEL_WEBHOOK_SECRET, Val(req.id),
                                         Val(req.timestamp), req.body,
                                         Val(req.signature))
                  <=> \E k \in 1..Len(Val(req.signature)) :
                         Val(req.signature)[k] =
                             Candidate("v1", PARALLEL_WEBHOOK_SECRET, Val(req.id),
                                       Val(req.timestamp), req.body)
           /\ (/\ HandleWebhookVerify(i)
               /\ reqs[i].req \in TamperedKeepingSignature(jobs)
                                      \cup TamperedShifted(jobs))
              => /\ resp'.op = "webhook" /\ resp'.status = 401
                 /\ reqs'[i] = IdleReq
                 /\ store' = store /\ jobs' = jobs
           /\ (HandleWebhookVerify(i) /\ reqs[i].req \in TamperedResigned(jobs))
              => /\ reqs'[i].pc = "update"
                 /\ reqs'[i].update.tag = "failed"]_vars

----------------------------------------------------------------------------
(* Properties of concurrent GET /new requests *)

\* The runs at the service that were submitted for a hostname.
RunsFor(js, hostname) == {k \in 1..Len(js) : js[k].metadata.hostname = hostname}

\* C18: the table has at most one row per hostname (the row stored under a
\* hostname is the row of that hostname); two GET /new requests for one
\* hostname can both be past the existence check, and then both have
\* issued their submission by the time both are at createAnalysis; every
\* createAnalysis succeeds (302) and leaves the requester's pending row as
\* the hostname's only row, whatever row was there, other rows untouched.
C18_LastWriteWins ==
    [][/\ \A h \in AllHosts : HasRow(store', h) => store'[h].hostname = h
       /\ \A i \in Slots, j \in Slots :
              (/\ i # j
               /\ reqs'[i].pc = "create" /\ reqs'[j].pc = "create"
               /\ reqs'[i].hostname = reqs'[j].hostname)
              => Cardinality(RunsFor(jobs', reqs'[i].hostname)) >= 2
       /\ \A i \in Slots :
              HandleNewCreate(i)
              => /\ resp'.op = "new" /\ resp'.status = 302
                 /\ store'[reqs[i].hostname] =
                        PendingRow(reqs[i].hostname, reqs[i].ctx.username,
                                   reqs[i].ctx.profile_image_url, reqs[i].stamp)
                 /\ \A g \in AllHosts \ {reqs[i].hostname} :
                        store'[g] = store[g]]_vars

\* Two requests for acme.com by different identities both passed the
\* existence check while there was no row, both submitted a run and both
\* wrote their row: the row is the one of the request that wrote last.
C18_Witness ==
    /\ now = 0
    /\ Len(jobs) = 2
    /\ \A k \in 1..Len(jobs) :
          jobs[k].metadata.hostname = "acme.com" /\ jobs[k].status = "running"
    /\ jobs[1].metadata.username # jobs[2].metadata.username
    /\ \A i \in Slots : reqs[i] = IdleReq
    /\ resp.op = "new" /\ resp.branch = "created" /\ ~resp.deleted
    /\ HasRow(store, "acme.com")
    /\ store["acme.com"].status = "pending"
    /\ Some(store["acme.com"].username) = resp.username

----------------------------------------------------------------------------
(* The flow from submission to the viewed report *)

\* The well-formed result of the scenario: it fits the criteria and names
\* two competitors.
ScenarioOutput == GoodOutput(<<"bolt.io", "cargo.dev">>)

\* C19: (1) an authenticated GET /new for a hostname without a record goes
\* on, and its createAnalysis leaves a pending record; (2) when the signed
\* completed event of that deep run, whose result is well-formed and names
\* two competitors without records, is handled, each competitor is
\* submitted with isDeep false and gets a pending record, and the handler's
\* update leaves the parent done with no error, its result stored and its
\* denormalized columns taken from the result; (3) a following GET
\* /analysis/{hostname} answers 200 and the parent's visits are 1.
C19_EndToEnd ==
    [][/\ (HandleNewBegin(1, FirstCompany, Identity("alice"))
               /\ ~HasRow(store, "acme.com"))
          => reqs'[1].pc = "dns"
       /\ HandleNewCreate(1)
          => /\ resp'.status = 302
             /\ HasRow(store', reqs[1].hostname)
             /\ store'[reqs[1].hostname].status = "pending"
       /\ \A i \in Slots, k \in 1..MaxCompetitors :
              (/\ HandleFanOutCheck(i, k)
               /\ ~HasRow(store, reqs[i].calls[k].hostname))
              => reqs'[i].calls[k].pc = "submit"
       /\ \A i \in Slots :
              LET hostname == reqs[i].hostname IN
              (/\ HandleWebhookUpdate(i)
               /\ reqs[i].update.tag = "success"
               /\ jobs[reqs[i].run_id].metadata.isDeep
               /\ jobs[reqs[i].run_id].output = ScenarioOutput
               /\ HasRow(store, hostname)
               /\ store[hostname].status = "pending"
               /\ \A k \in 1..Len(reqs[i].calls) : reqs[i].calls[k].pc = "created")
              => /\ resp'.status = 200
                 /\ store'[hostname].status = "done"
                 /\ store'[hostname].error = Null
                 /\ store'[hostname].result # Null
                 /\ Denormalized(store'[hostname]) =
                        [company_name |-> "Acme Inc", category |-> Some("SaaS"),
                         business_description |-> Some("does things"),
                         industry_sector |-> Some("software"),
                         keywords |-> Some("tools, apps")]
                 /\ Len(reqs[i].calls) = 2
                 /\ \A k \in 1..Len(reqs[i].calls) :
                        LET c == reqs[i].calls[k] IN
                        /\ HasRow(store', c.hostname)
                        /\ store'[c.hostname].status = "pending"
                        /\ jobs[c.run_id].metadata.hostname = c.hostname
                        /\ jobs[c.run_id].metadata.isDeep = FALSE
       /\ \A i \in Slots :
              (/\ HandleResultVisit(i)
               /\ reqs[i].hostname = "acme.com"
               /\ HasRow(store, "acme.com")
               /\ store["acme.com"].visits = 0)
              => /\ resp'.op = "result" /\ resp'.status = 200
                 /\ store'["acme.com"].visits = 1]_vars

\* The scenario has run to its end: acme.com is done with no error and has
\* been viewed once, bolt.io and cargo.dev are pending, and their runs are
\* not deep.
C19_Witness ==
    /\ resp.op = "result" /\ resp.status = 200
    /\ resp.hostname = Some("acme.com")
    /\ Len(jobs) = 3
    /\ jobs[1].output = ScenarioOutput
    /\ ~jobs[2].metadata.isDeep /\ ~jobs[3].metadata.isDeep
    /\ \A h \in Hosts : HasRow(store, h)
    /\ store["acme.com"].status = "done" /\ store["acme.com"].error = Null
    /\ store["acme.com"].company_name = "Acme Inc"
    /\ store["acme.com"].visits = 1
    /\ store["bolt.io"].status = "pending"
    /\ store["cargo.dev"].status = "pending"

----------------------------------------------------------------------------
(* Properties of the Markdown report *)

\* The record of a hostname is done, has no error and has a result.
Reportable(s, hostname) ==
    /\ HasRow(s, hostname)
    /\ s[hostname].status = "done"
    /\ s[hostname].error = Null
    /\ s[hostname].result # Null

\* The sections of a report whose callbacks are calls, when the callback k
\* returns last and its competitor is available (okK) or not: the hostnames
\* of the callbacks that returned a row, in the order of the stored result.
SectionsOf(calls, k, okK) ==
    LET marked == [j \in 1..Len(calls) |->
                      [hostname |-> calls[j].hostname,
                       ok |-> IF j = k THEN okK ELSE calls[j].pc = "valid"]]
        Kept(m) == m.ok
        kept == SelectSeq(marked, Kept)
    IN  [j \in 1..Len(kept) |-> kept[j].hostname]

\* C20: GET /md/{hostname} writes nothing at any of its steps (the table
\* and the runs are as before); it answers 404 when the record it reads is not there, not done, has an
\* error or has no result, and otherwise goes on to the report, which it
\* answers with 200; and a competitor of the stored result has a section
\* exactly when the competitor's own record, when the handler reads it, is
\* done, error-free and has a result.
C20_MdReadOnly ==
    [][\A i \in Slots :
           /\ \A hostname \in ViewedHosts :
                  HandleMd(i, hostname)
                  => /\ store' = store
                     /\ jobs' = jobs
                     /\ IF Reportable(store, hostname)
                        THEN \/ /\ reqs'[i].pc = "md"
                                /\ reqs'[i].hostname = hostname
                                /\ [k \in 1..Len(reqs'[i].calls) |->
                                       reqs'[i].calls[k].hostname]
                                     = CompetitorHostnames(
                                         Val(store[hostname].result).output.content)
                                /\ reqs'[i].calls # << >>
                             \/ /\ reqs'[i] = IdleReq
                                /\ resp'.op = "md" /\ resp'.status = 200
                                /\ resp'.sections = << >>
                                /\ CompetitorHostnames(
                                       Val(store[hostname].result).output.content)
                                     = << >>
                        ELSE /\ reqs'[i] = IdleReq
                             /\ resp'.op = "md" /\ resp'.status = 404
                             /\ resp'.sections = << >>
           /\ \A k \in 1..MaxCompetitors :
                  HandleMdRead(i, k)
                  => LET c == reqs[i].calls[k].hostname IN
                     /\ store' = store
                     /\ jobs' = jobs
                     /\ IF \E j \in 1..Len(reqs[i].calls) :
                              j # k /\ reqs[i].calls[j].pc = "get"
                        THEN /\ reqs'[i].pc = "md"
                             /\ reqs'[i].calls[k].pc = "valid"
                                    <=> Reportable(store, c)
                             /\ \A j \in 1..Len(reqs[i].calls) :
                                    j # k => reqs'[i].calls[j] = reqs[i].calls[j]
                        ELSE /\ reqs'[i] = IdleReq
                             /\ resp'.op = "md" /\ resp'.status = 200
                             /\ resp'.hostname = Some(reqs[i].hostname)
                             /\ resp'.sections =
                                    SectionsOf(reqs[i].calls, k,
                                               Reportable(store, c))]_vars

\* The report of acme.com has been returned with a section for bolt.io,
\* which is done, and none for cargo.dev, which is pending.
C20_Witness ==
    /\ resp.op = "md" /\ resp.status = 200
    /\ resp.hostname = Some("acme.com")
    /\ resp.sections = <<"bolt.io">>
    /\ HasRow(store, "cargo.dev")
    /\ store["cargo.dev"].status = "pending"
    /\ CompetitorHostnames(Val(store["acme.com"].result).output.content)
           = <<"bolt.io", "cargo.dev">>

----------------------------------------------------------------------------
(* Properties of the search *)

\* The class of a row for a query as C21 words it: 1 the hostname is the
\* query, 2 the company name is the query, 3 the hostname starts with it,
\* 4 the company name starts with it, 5 any other match; letter case is
\* ignored.
MatchClass(row, query) ==
    LET q == Lower(query)
        hostname == Lower(Chars(row.hostname))
        company == Lower(Chars(row.company_name))
    IN  CASE hostname = q -> 1
          [] hostname # q /\ company = q -> 2
          [] hostname # q /\ company # q /\ StartsWith(hostname, q) -> 3
          [] hostname # q /\ company # q /\ ~StartsWith(hostname, q)
                 /\ StartsWith(company, q) -> 4
          [] OTHER -> 5

\* The queries handleSearch passes on: trimmed and not empty.
PassedQueries ==
    {Trim(Chars(query)) : query \in SearchQueries} \ {<< >>}

\* C21: whatever searchAnalyses returns for a query, the record whose
\* hostname is the query, letter case ignored, comes first, ahead of the
\* records that match on other columns only; the records come in the order
\* of their class (exact hostname, exact company name, hostname prefix,
\* company-name prefix, other matches: no record is followed by one of a
\* lower class); and there are at most 50 of them, each a record that
\* matches, also when more than 50 records match.
C21_SearchRanking ==
    \A query \in PassedQueries : \A found \in searchAnalyses(store, query) :
        /\ Len(found) <= 50
        /\ \A i \in 1..Len(found) :
               /\ HasRow(store, found[i])
               /\ searchMatches(store[found[i]], Lower(query))
        /\ \A i \in 1..(Len(found) - 1) :
               MatchClass(store[found[i]], query)
                   <= MatchClass(store[found[i + 1]], query)
        /\ \A h \in DOMAIN store :
               (HasRow(store, h) /\ Lower(Chars(h)) = Lower(query))
                   => found # << >> /\ found[1] = h

\* A search for " ACME.com " over a table in which more than 50 records
\* match has returned 50 of them, acme.com first, although the record of
\* bolt.io, whose keywords mention acme.com, has more visits and every
\* further record is newer.
C21_Witness ==
    /\ resp.op = "search" /\ resp.status = 200
    /\ Len(resp.results) = 50
    /\ resp.results[1] = "acme.com"
    /\ \E i \in 2..50 : resp.results[i] = "bolt.io"
    /\ Cardinality({h \in DOMAIN store : HasRow(store, h)}) > 50
    /\ store["bolt.io"].keywords = Some("acme.com rival")
    /\ store["bolt.io"].visits > store["acme.com"].visits

----------------------------------------------------------------------------
(* Properties of the terminal update *)

DenormalizedFields ==
    {"company_name", "category", "business_description", "industry_sector",
     "keywords"}

\* The columns no update may touch.
Identifying(row) ==
    [username |-> row.username, hostname |-> row.hostname,
     visits |-> row.visits, created_at |-> row.created_at]

\* C22: the update of a completed event handled with success leaves the
\* hostname's record (when there is one) done with updated_at refreshed; a
\* denormalized column whose field the job output does not have keeps its
\* value (it is not overwritten with null); hostname, username, created_at
\* and visits keep their values, and so does every other record.
C22_PartialUpdate ==
    [][\A i \in Slots :
           LET hostname == reqs[i].hostname
               content == jobs[reqs[i].run_id].output.content
           IN  (/\ HandleWebhookUpdate(i)
                /\ reqs[i].update.tag = "success"
                /\ ~UpdateThrows(store, reqs[i])
                /\ HasRow(store, hostname))
               => /\ store'[hostname].status = "done"
                  /\ store'[hostname].updated_at = now
                  /\ \A f \in DenormalizedFields :
                         content[f] = Null
                             => store'[hostname][f] = store[hostname][f]
                  /\ Identifying(store'[hostname]) = Identifying(store[hostname])
                  /\ \A g \in AllHosts \ {hostname} : store'[g] = store[g]]_vars

\* C23: in every reachable state a pending record has neither result nor
\* error, and a done record has a result or an error; it has both only
\* with the empty-strings error.
C23_StatusShape ==
    \A h \in AllHosts :
        HasRow(store, h) =>
            /\ store[h].status \in {"pending", "done"}
            /\ store[h].status = "pending"
                   => store[h].result = Null /\ store[h].error = Null
            /\ store[h].status = "done"
                   => /\ store[h].result # Null \/ store[h].error # Null
                      /\ (store[h].result # Null /\ store[h].error # Null)
                             => store[h].error = Some(ERR_EMPTY)

\* A failed event was handled and left the record done with its error and
\* no result.
C23_Witness ==
    /\ resp.op = "webhook"
    /\ resp.branch = "failed"
    /\ \E h \in AllHosts :
          /\ HasRow(store, h)
          /\ resp.hostname = Some(h)
          /\ store[h].status = "done"
          /\ store[h].result = Null
          /\ store[h].error # Null

----------------------------------------------------------------------------
(* The order of the gates of /new *)

\* The identity is no admin and owns ANALYSIS_LIMIT records or more in s.
QuotaUsedUp(s, ctx) ==
    /\ Owner(ctx) \notin ADMIN_USERNAMES
    /\ getUserAnalysisCount(s, Owner(ctx)) >= ANALYSIS_LIMIT

\* The gates after the existing-record check, as both readings of C24 have
\* them: the resolver's answer decides between 400 and going on, logged in
\* or not; then 401 for a caller who is not logged in, whatever the caller
\* owns; then 429 or the submission, which is reached from the quota lookup
\* only, by a logged-in caller with a valid hostname.
GatesInOrder(i) ==
    /\ \A dnsOk \in BOOLEAN :
           HandleNewValidate(i, dnsOk)
           => IF ~dnsOk \/ reqs[i].hostname = "localhost"
              THEN /\ resp'.op = "new" /\ resp'.status = 400
                   /\ reqs'[i] = IdleReq
              ELSE IF ~reqs[i].ctx.authenticated
              THEN /\ resp'.op = "new" /\ resp'.status = 401
                   /\ reqs'[i] = IdleReq
              ELSE reqs'[i].pc = "count"
    /\ HandleNewCount(i)
       => IF QuotaUsedUp(store, reqs[i].ctx)
          THEN /\ resp'.op = "new" /\ resp'.status = 429
               /\ reqs'[i] = IdleReq
          ELSE reqs'[i].pc = "submit"
    /\ (reqs'[i].pc = "submit" /\ reqs[i].pc # "submit")
       => reqs[i].pc = "count"
    /\ reqs'[i].pc \in {"submit", "create"}
       => /\ reqs'[i].hostname \notin {"", "localhost"}
          /\ reqs'[i].ctx.authenticated

\* C24 as stated: every request whose company parameter is missing, blank
\* or fails the format check is answered 400 at once, logged in or not; a
\* request for a well-formed hostname is not answered before validation and
\* login have been looked at; then the gates follow in their order.
C24_GateOrder ==
    [][\A i \in Slots :
           /\ \A company \in NewCompanies, ctx \in Contexts :
                  HandleNewBegin(i, company, ctx)
                  => IF IsBlank(company) \/ Normalize(Val(company)) = "localhost"
                     THEN /\ resp'.op = "new" /\ resp'.status = 400
                          /\ reqs'[i] = IdleReq
                     ELSE reqs'[i].pc # "idle"
           /\ GatesInOrder(i)]_vars

\* The hostname's record is one /new redirects to: it has no error and is
\* not stale, or is stale and the caller is not logged in.
KeptRecord(s, clock, company, ctx) ==
    /\ ~IsBlank(company)
    /\ HasRow(s, Normalize(Val(company)))
    /\ ~Truthy(s[Normalize(Val(company))].error)
    /\ ~(StaleRecord(s[Normalize(Val(company))], clock) /\ ctx.authenticated)

\* C24, amended: a missing or blank company parameter is answered 400; a
\* request for a hostname with a record that is kept is answered with the
\* 302 to it, before validation and login; a record that is not kept is
\* deleted first; every other request is answered 400 when the hostname
\* fails validation, logged in or not, else 401 when the caller is not
\* logged in, whatever the caller owns, else 429 when the quota is used up,
\* and goes on to the submission only when all three gates have passed.
C24_GateOrderAfterExisting ==
    [][\A i \in Slots :
           /\ \A company \in NewCompanies, ctx \in Contexts :
                  HandleNewBegin(i, company, ctx)
                  => IF IsBlank(company)
                     THEN /\ resp'.op = "new" /\ resp'.status = 400
                          /\ reqs'[i] = IdleReq
                     ELSE IF KeptRecord(store, now, company, ctx)
                     THEN /\ resp'.op = "new" /\ resp'.status = 302
                          /\ reqs'[i] = IdleReq
                     ELSE IF HasRow(store, Normalize(Val(company)))
                     THEN reqs'[i].pc = "delete"
                     ELSE IF Normalize(Val(company)) = "localhost"
                     THEN /\ resp'.op = "new" /\ resp'.status = 400
                          /\ reqs'[i] = IdleReq
                     ELSE reqs'[i].pc = "dns"
           /\ HandleNewDelete(i) => reqs'[i].pc = "dns"
           /\ GatesInOrder(i)]_vars

\* A logged-in caller has been answered 400 for a hostname the resolver
\* does not know, and nothing was submitted.
C24_Witness ==
    /\ resp.op = "new" /\ resp.status = 400 /\ resp.branch = "invalid"
    /\ resp.hostname = Some("acme.com")
    /\ resp.username # Null
    /\ jobs = << >>

----------------------------------------------------------------------------
(* Exceptions and failed runs in the webhook handler *)


\* The errors the catch block can leave in a record.
FetchErrors ==
    {ErrorFetchingResult(m) : m \in {MSG_FETCH, MSG_NULL_CONTENT, MSG_SUBMIT, MSG_NOT_NULL}}

\* C25: when the handling of a signature-valid completed event throws (the
\* result fetch, the null content, a submission of the fan-out, the data
\* update), the exception is caught: the handler goes on to the catch
\* block's update, which leaves the hostname's record, when there is one,
\* done with an "Error fetching result" error and no result, and the answer
\* is still the 200 acknowledgement.
C25_CaughtIsTerminal ==
    [][\A i \in Slots :
           /\ HandleWebhookFetch(i, FALSE)
              => reqs'[i].pc = "update" /\ reqs'[i].update.tag = "caught"
           /\ (HandleWebhookFetch(i, TRUE)
                   /\ jobs[reqs[i].run_id].output.content.kind = "null")
              => reqs'[i].pc = "update" /\ reqs'[i].update.tag = "caught"
           /\ \A k \in 1..MaxCompetitors :
                  (HandleFanOutSubmit(i, k, FALSE) /\ reqs[i].pc = "fanout")
                  => reqs'[i].pc = "update" /\ reqs'[i].update.tag = "caught"
           /\ (HandleWebhookUpdate(i) /\ UpdateThrows(store, reqs[i]))
              => /\ reqs'[i].pc = "update" /\ reqs'[i].update.tag = "caught"
                 /\ resp' = resp
           /\ (HandleWebhookUpdate(i) /\ reqs[i].update.tag = "caught")
              => LET hostname == reqs[i].hostname IN
                 /\ resp'.op = "webhook" /\ resp'.status = 200
                 /\ resp'.branch = "caught"
                 /\ HasRow(store, hostname)
                       => /\ HasRow(store', hostname)
                          /\ store'[hostname].status = "done"
                          /\ store'[hostname].result = Null
                          /\ store'[hostname].error # Null
                          /\ Val(store'[hostname].error) \in FetchErrors]_vars

\* The result fetch threw and acme.com's pending record ended with the
\* connection error.
C25_Witness ==
    /\ resp.op = "webhook" /\ resp.branch = "caught" /\ resp.status = 200
    /\ HasRow(store, "acme.com")
    /\ store["acme.com"].status = "done"
    /\ store["acme.com"].result = Null
    /\ store["acme.com"].error = Some(ErrorFetchingResult(MSG_FETCH))

\* C26: a signature-valid failed event that names a hostname takes the
\* handler straight to the update, with no result fetched and no fan-out;
\* the update leaves the record done with no result and with the error
\* message the service provided, or "Analysis failed" when it provided
\* none; nothing is submitted, and no other record changes.
C26_FailedEvent ==
    [][\A i \in Slots :
           /\ (/\ HandleWebhookVerify(i)
               /\ TerminalEvent(reqs[i].req)
               /\ EventOf(reqs[i].req).data.status = "failed")
              => /\ reqs'[i].pc = "update"
                 /\ reqs'[i].update.tag = "failed"
                 /\ ~reqs'[i].fetched
                 /\ reqs'[i].calls = << >>
                 /\ reqs'[i].hostname =
                        Val(EventHostname(EventOf(reqs[i].req)))
                 /\ reqs'[i].run_id = EventOf(reqs[i].req).data.run_id
           /\ (HandleWebhookUpdate(i) /\ reqs[i].update.tag = "failed")
              => LET hostname == reqs[i].hostname
                     error == jobs[reqs[i].run_id].error
                     provided == error # Null
                                    /\ Val(error).message \notin {Null, Some("")}
                 IN  /\ resp'.op = "webhook" /\ resp'.status = 200
                     /\ ~resp'.fetched
                     /\ resp'.attempted = << >>
                     /\ jobs' = jobs
                     /\ reqs'[i] = IdleReq
                     /\ \A g \in AllHosts \ {hostname} : store'[g] = store[g]
                     /\ HasRow(store, hostname)
                           => /\ store'[hostname].status = "done"
                              /\ store'[hostname].result = Null
                              /\ store'[hostname].error =
                                     (IF provided THEN Val(error).message
                                      ELSE Some(ERR_FAILED))
                              /\ store'[hostname].updated_at = now]_vars

\* The failed event of acme.com's run, which carried a message, was
\* handled: the record is done with that message and no result.
C26_Witness ==
    /\ resp.op = "webhook" /\ resp.branch = "failed"
    /\ resp.hostname = Some("acme.com")
    /\ HasRow(store, "acme.com")
    /\ store["acme.com"].status = "done"
    /\ store["acme.com"].result = Null
    /\ store["acme.com"].error = Some("Task timed out")
    /\ Len(jobs) = 1

----------------------------------------------------------------------------
(* Completion and correlation *)

\* The step is the update of a webhook handler for the hostname.
WebhookUpdateFor(hostname) ==
    \E i \in Slots : HandleWebhookUpdate(i) /\ reqs[i].hostname = hostname

\* After the step the pending record of h is still pending, without result
\* or error, and unchanged unless a view that had read the hostname's row
\* counts a visit or createAnalysis replaces it with a new pending record;
\* or it is gone because /new deleted it.
StaysPending(h) ==
    \/ /\ HasRow(store', h)
       /\ store'[h].status = "pending"
       /\ store'[h].result = Null /\ store'[h].error = Null
       /\ store'[h] # store[h]
             => \/ \E i \in Slots :
                      HandleResultVisit(i) /\ reqs[i].hostname = h
                \/ RecordStarts(h)
    \/ /\ ~HasRow(store', h)
       /\ \E i \in Slots : HandleNewDelete(i) /\ reqs[i].hostname = h

\* C27: among the worker's handlers a pending record becomes done only in
\* the update step of a handleWebhook for its hostname; after every other
\* step, those of the page handlers among them, it stays pending until /new
\* deletes it or replaces it with a new pending record. An administrator's
\* own statement in the data browser is no step of a handler.
C27_OnlyWebhookCompletes ==
    [][\A h \in AllHosts :
           (HasRow(store, h) /\ store[h].status = "pending" /\ ~StudioStep)
           => WebhookUpdateFor(h) \/ StaysPending(h)]_vars

\* acme.com's run has completed at the service, no event has been handled,
\* and the report was asked for: the record is still pending.
C27_Witness ==
    /\ resp.op = "md" /\ resp.hostname = Some("acme.com")
    /\ HasRow(store, "acme.com")
    /\ store["acme.com"].status = "pending"
    /\ Len(jobs) >= 1 /\ jobs[1].status = "completed"

\* C28: whenever the update of a run's completed or failed event takes
\* effect, the record for the run's hostname is in the table: no
\* performAnalysis that submitted the run is still before its
\* createAnalysis.
C28_RecordBeforeEvent ==
    [][\A i \in Slots :
           (/\ HandleWebhookUpdate(i)
            /\ ~UpdateThrows(store, reqs[i])
            /\ reqs[i].run_id \in 1..Len(jobs))
           => /\ HasRow(store, reqs[i].hostname)
              /\ \A j \in Slots :
                    ~(reqs[j].pc = "create" /\ reqs[j].run_id = reqs[i].run_id)]_vars

\* The run submitted last for a hostname: the one whose submission the
\* hostname's pending record was created after.
LatestRunFor(js, hostname) ==
    CHOOSE k \in RunsFor(js, hostname) : \A j \in RunsFor(js, hostname) : j <= k

\* C29: when the update of a run's completed or failed event sets a pending
\* record to done, that run is the one submitted when the record was
\* created, never a run submitted for an earlier record of the hostname.
C29_EventOfOwnRun ==
    [][\A i \in Slots :
           LET hostname == reqs[i].hostname IN
           (/\ HandleWebhookUpdate(i)
            /\ reqs[i].run_id \in 1..Len(jobs)
            /\ HasRow(store, hostname)
            /\ store[hostname].status = "pending"
            /\ store'[hostname].status = "done")
           => reqs[i].run_id = LatestRunFor(jobs, hostname)]_vars

----------------------------------------------------------------------------
(* Repeated competitors *)

\* No element of the sequence occurs twice.
NoRepeats(seq) ==
    \A i \in 1..Len(seq), j \in 1..Len(seq) : seq[i] = seq[j] => i = j

\* C30: the handling of one deep completion submits at most one run per
\* competitor hostname, however often the result names it, and none for
\* the hostname of the run that completed.
C30_OnePerCompetitor ==
    [][\A i \in Slots :
           HandleWebhookUpdate(i)
           => /\ NoRepeats(Attempted(reqs[i]))
              /\ reqs[i].hostname \notin Range(Attempted(reqs[i]))]_vars

============================================================================
